---- MODULE Spec2Model ----
(***************************************************************************)
(* State-machine model of the trade table generator of the backtest        *)
(* engine (rust-engine/src/trade_table.rs) and of its indicator registry   *)
(* (rust-engine/src/indicators.rs).                                        *)
(*                                                                         *)
(* Number representation.  The source computes in rust_decimal::Decimal    *)
(* (96-bit mantissa, up to 28 fractional digits).  The model uses exact    *)
(* integers in fixed units:                                                *)
(*   price, tick_size          whole dollars                               *)
(*   quantity, lot_size        1/QtyScale                                  *)
(*   notional, fee, pnl,       1/MoneyScale dollars (MoneyScale = QtyScale *)
(*   equity, min_notional        because a price is a whole number)        *)
(*   fee rates                 1/FeeScale                                  *)
(*   slippage rates            1/SlipScale                                 *)
(*   quotients (pnl_pct,       1/10^DivDigits                              *)
(*   drawdown)                                                             *)
(*   indicator values          1/IndScale, every quotient rounded there    *)
(* +, - and * are exact in both; Decimal::round() is round-half-to-even in *)
(* both.  A Decimal quotient is rounded at the 28th digit; the inputs of   *)
(* the model are small enough that no quotient that is rounded afterwards  *)
(* lies within 10^-20 of a rounding midpoint unless it is exactly on it,   *)
(* so rounding the exact rational gives the same result.                   *)
(***************************************************************************)
EXTENDS Integers, Sequences, FiniteSets, TLC

\* ---------------------------------------------------------------- bounds
\* Bars carry the timestamps 1*TimeStep .. MaxTime*TimeStep.
MaxTime == 3
\* Number of bars of a non-empty market data series given to the registry.
SeriesLen == 22
\* Number of positions opened in a run over unvalidated market data.
MaxEntries == 2
\* Jobs are run on an engine while its simulator holds fewer equity points.
MaxHistory == 40

\* ---------------------------------------------------------------- units
QtyScale == 10 * 10 * 10
MoneyScale == QtyScale
FeeScale == 10 * 10 * 10 * 10
SlipScale == 10 * 10 * 10 * 10
DivDigits == 2 * 3
\* profit_factor is kept in units of 10^-RatioDigits
RatioDigits == 1 + 2
MsPerHour == 3600 * 1000
IndDigits == 1 + 2
IndScale == 10 * 10 * 10
TimeStep == 12 * 3600 * 1000
MsPerDay == 24 * 3600 * 1000
\* Timestamps and times to live are u64; the model keeps 30 of the 64 bits.
U64Modulus == 2 ^ 30
U64Max == U64Modulus - 1

\* ---------------------------------------------------------------- program constants
\* TradeTableGenerator::new: default_size_usd: dec!(1000.0)
default_size_usd == 1000
\* TradeTableGenerator::new: current_equity: dec!(10000.0); also the literal
\* in update_equity_and_drawdown
starting_equity == 10000
\* IndicatorRegistry::calculate: period: 20 of ema, sma, hh, ll
long_period == 20
\* IndicatorRegistry::calculate: period: 14 of rsi, atr
short_period == 14

\* Option<T>: <<>> is None, <<v>> is Some(v)
None == <<>>
Some(v) == <<v>>
IsSome(o) == o # <<>>
Unwrap(o) == o[1]

\* ---------------------------------------------------------------- arithmetic
Abs(x) == IF x < 0 THEN -x ELSE x

Pow10(n) == IF n = 0 THEN 1 ELSE IF n = 1 THEN 10 ELSE IF n = 2 THEN 100
            ELSE IF n = 3 THEN 1000 ELSE IF n = 4 THEN 10000
            ELSE IF n = 5 THEN 100000 ELSE 1000000

\* Decimal::round() of the rational n/d (d > 0): nearest integer, ties to even.
RoundHalfEven(n, d) ==
    LET q == n \div d
        r == n % d
    IN  IF 2 * r < d THEN q
        ELSE IF 2 * r > d THEN q + 1
        ELSE IF q % 2 = 0 THEN q ELSE q + 1

\* Fractional digits of r/b (0 <= r < b), n of them, by long division;
\* <<digits as an integer, remainder>>.
RECURSIVE FracDigits(_, _, _)
FracDigits(r, b, n) ==
    IF n = 0 THEN <<0, r>>
    ELSE LET d == (r * 10) \div b
             rest == FracDigits((r * 10) % b, b, n - 1)
         IN  <<d * Pow10(n - 1) + rest[1], rest[2]>>

\* Decimal a / b (b > 0) in units of 10^-n, last digit rounded half-even.
DecimalDivTo(a, b, n) ==
    LET m == Abs(a)
        f == FracDigits(m % b, b, n)
        t == (m \div b) * Pow10(n) + f[1]
        u == IF 2 * f[2] < b THEN t
             ELSE IF 2 * f[2] > b THEN t + 1
             ELSE IF t % 2 = 0 THEN t ELSE t + 1
    IN  IF a < 0 THEN -u ELSE u

\* Decimal a / b (b > 0) in units of 10^-DivDigits.
DecimalDiv(a, b) == DecimalDivTo(a, b, DivDigits)

\* The / of Decimal: panics ("Division by zero") when the divisor is zero.
\* None is the panic, Some(q) the quotient in units of 10^-n.
Division(a, b, n) == IF b = 0 THEN None ELSE Some(DecimalDivTo(a, b, n))

RECURSIVE SumPnl(_)
SumPnl(records) ==
    IF records = <<>> THEN 0 ELSE Head(records).pnl_usd + SumPnl(Tail(records))

\* ---------------------------------------------------------------- inputs
Symbols == {"A", "B"}
Prices == {48000, 50000, 53000}
IntrabarPolicies == {"ExactTrades", "OneSecondBars", "LinearInterpolation"}
SlippageModes == {"None", "TradeSweep", "SyntheticBook"}

\* ExchangeRules values of a run.  FineRules is the shape of
\* ExchangeRules::default() at the model's resolution; CoarseRules has a lot
\* size and a minimum notional that make the notional filter bite.
FineRules ==
    [tick_size |-> 1, lot_size |-> 1, min_notional |-> 10 * MoneyScale,
     maker_fee |-> 2, taker_fee |-> 1, precision_price |-> 3]
CoarseRules ==
    [tick_size |-> 10, lot_size |-> 10, min_notional |-> 1000 * MoneyScale,
     maker_fee |-> 5, taker_fee |-> 10, precision_price |-> 1]

\* Rules with no minimum notional and a lot so large that the raw quantity
\* of a default-size order rounds to zero lots at a close of 50000 (half a
\* lot, to even) and of 53000, and to one lot at a close of 48000.
ZeroLotRules ==
    [tick_size |-> 1, lot_size |-> 40, min_notional |-> 0,
     maker_fee |-> 2, taker_fee |-> 1, precision_price |-> 2]

\* The <<policy, slippage mode, rules>> a run is started with: every policy
\* with both rule sets, every slippage mode with both rule sets, and the
\* rules without a minimum notional.
Configs ==
    { <<"ExactTrades", "None", FineRules>>,
      <<"ExactTrades", "SyntheticBook", CoarseRules>>,
      <<"OneSecondBars", "TradeSweep", FineRules>>,
      <<"OneSecondBars", "None", CoarseRules>>,
      <<"LinearInterpolation", "SyntheticBook", FineRules>>,
      <<"LinearInterpolation", "TradeSweep", CoarseRules>>,
      <<"LinearInterpolation", "None", CoarseRules>>,
      <<"ExactTrades", "None", ZeroLotRules>> }

\* Bar shapes <<open, high, low, close>>, each with low <= open, close <= high:
\* a flat bar, a bar rising through the whole range, a falling bar and a bar
\* rising in the upper half.
BarShapes ==
    { <<50000, 50000, 50000, 50000>>,
      <<48000, 53000, 48000, 53000>>,
      <<50000, 50000, 48000, 48000>>,
      <<50000, 53000, 50000, 53000>> }

Bars(ts) ==
    { [timestamp |-> ts, open |-> s[1], high |-> s[2], low |-> s[3], close |-> s[4]] :
        s \in BarShapes }

\* Bracket levels of a signal: a long takes profit above and stops below,
\* a short the other way round.
BracketTp(side) == IF side = "Buy" THEN 53000 ELSE 48000
BracketSl(side) == IF side = "Buy" THEN 48000 ELSE 53000

Signal(sym, side, bracket, ttl) ==
    [symbol |-> sym, side |-> side,
     take_profit |-> IF bracket THEN Some(BracketTp(side)) ELSE None,
     stop_loss |-> IF bracket THEN Some(BracketSl(side)) ELSE None,
     time_to_live |-> ttl]

\* The signal lists a strategy hands over with a bar.
SignalLists ==
    { <<>>,
      <<Signal("A", "Buy", TRUE, None)>>,
      <<Signal("A", "Sell", TRUE, None)>>,
      <<Signal("A", "Buy", FALSE, Some(TimeStep))>>,
      <<Signal("A", "Buy", TRUE, Some(2 * TimeStep))>>,
      <<Signal("A", "Buy", TRUE, None), Signal("A", "Buy", FALSE, Some(TimeStep))>>,
      <<Signal("A", "Buy", TRUE, None), Signal("B", "Sell", TRUE, None)>> }

\* Inputs with a price range of 1 : 12, for losses larger than the starting
\* equity: a flat bar, a bar that spikes and closes at its high, a bar that
\* spikes and closes where it opened; a short and a long whose far levels the
\* spike touches.
WideConfigs ==
    { <<"ExactTrades", "None", CoarseRules>>,
      <<"OneSecondBars", "None", CoarseRules>> }

WideBarShapes ==
    { <<1000, 1000, 1000, 1000>>,
      <<1000, 12000, 1000, 12000>>,
      <<1000, 12000, 1000, 1000>> }

WideBars(ts) ==
    { [timestamp |-> ts, open |-> s[1], high |-> s[2], low |-> s[3], close |-> s[4]] :
        s \in WideBarShapes }

WideSignalLists ==
    { <<>>,
      <<[symbol |-> "A", side |-> "Sell", take_profit |-> Some(500),
         stop_loss |-> Some(12000), time_to_live |-> None]>>,
      <<[symbol |-> "A", side |-> "Buy", take_profit |-> Some(12000),
         stop_loss |-> Some(500), time_to_live |-> None]>> }

\* Signals with the two StrategySignal fields the other inputs leave out:
\* size (0: left unset) and entry_price.
SizedSignal(sym, side, size, entry_price) ==
    [symbol |-> sym, side |-> side,
     size |-> size, entry_price |-> entry_price,
     take_profit |-> Some(BracketTp(side)), stop_loss |-> Some(BracketSl(side)),
     time_to_live |-> None]

SizedSignalLists ==
    { <<>>,
      <<SizedSignal("A", "Buy", 1000, None)>>,
      <<SizedSignal("A", "Buy", 2000, Some(48000))>>,
      <<SizedSignal("A", "Sell", 1000, Some(50000))>>,
      <<SizedSignal("B", "Sell", 0, None)>>,
      <<SizedSignal("B", "Buy", 500, Some(53000))>> }

SizedConfigs ==
    { <<"ExactTrades", "None", FineRules>>,
      <<"ExactTrades", "SyntheticBook", CoarseRules>>,
      <<"OneSecondBars", "TradeSweep", FineRules>>,
      <<"LinearInterpolation", "None", CoarseRules>> }

\* Bars of an instrument whose price may fall to zero: a flat bar, a bar
\* falling to a close of 0 and a flat bar at 0.
ZeroBarShapes ==
    { <<50000, 50000, 50000, 50000>>,
      <<50000, 50000, 0, 0>>,
      <<0, 0, 0, 0>> }

ZeroBars ==
    { [timestamp |-> t * TimeStep, open |-> s[1], high |-> s[2], low |-> s[3],
       close |-> s[4]] :
        t \in 1..MaxTime, s \in ZeroBarShapes }

ZeroSignalLists ==
    { <<>>,
      <<Signal("A", "Buy", TRUE, None)>>,
      <<Signal("A", "Sell", FALSE, Some(TimeStep))>>,
      <<Signal("A", "Buy", TRUE, None), Signal("B", "Sell", TRUE, None)>> }

\* Bars as a data feed may deliver them, in any order of timestamps: a flat
\* bar, a rising bar, a flat bar with negative volume and a bar whose low is
\* above its high.
AnyBarShapes ==
    { <<50000, 50000, 50000, 50000, 1>>,
      <<50000, 53000, 50000, 53000, 1>>,
      <<50000, 50000, 50000, 50000, -1>>,
      <<50000, 48000, 53000, 50000, 1>> }

AnyBars ==
    { [timestamp |-> t * TimeStep, open |-> s[1], high |-> s[2], low |-> s[3],
       close |-> s[4], volume |-> s[5]] :
        t \in 1..MaxTime, s \in AnyBarShapes }

AnySignalLists ==
    { <<>>,
      <<Signal("A", "Buy", TRUE, None)>>,
      <<Signal("A", "Sell", FALSE, Some(TimeStep))>> }

\* ---------------------------------------------------------------- state
VARIABLES
    active_positions,   \* HashMap<String, ActivePosition>: key -> position
    trade_records,      \* Vec<TradeRecord>
    rejected_trades,    \* Vec<RejectedTrade>
    current_equity,
    peak_equity,
    max_drawdown,
    intrabar_policy,    \* the run's IntrabarPolicy (argument of every process_bar)
    slippage_mode,      \* the run's SlippageMode
    rules,              \* the run's ExchangeRules
    bar,                \* Option<Bar>: the bar of the last process_bar call
    signals,            \* the signal list of the last process_bar call
    entry_log,          \* trace of "Created position" events: <<symbol, entry_time>>
    result,             \* Option<TradeTableResult>: what generate_result returned last
    panic,              \* Option<String>: the function in which the thread panicked
    enable_simd,        \* IndicatorRegistry.enable_simd
    cache,              \* IndicatorRegistry.cache: HashMap<String, Vec<IndicatorValue>>
    calc_call,          \* Option: [indicator_name, market_data] of the last calculate call
    calc_returned,      \* Option: what the last calculate call returned
    job,                \* Option: the job of the last execute_job call
    job_returned,       \* Option: what the last execute_job call returned
    equity_history,     \* ExchangeSimulator.equity_history: Vec<EquityPoint>
    fp_validated,       \* validate_fp_determinism has returned Ok in this process
    precise,            \* Option: the PreciseDecimal the last PreciseDecimal call built
    precise_call,       \* Option: the arguments of that call
    wasm_signal,        \* Option: the WasmSignal a strategy returned last
    strategy_signal     \* Option: the StrategySignal converted from it

generator_vars == <<active_positions, trade_records, rejected_trades, current_equity,
                    peak_equity, max_drawdown, intrabar_policy, slippage_mode, rules,
                    bar, signals, entry_log, result, panic>>

registry_vars == <<enable_simd, cache, calc_call, calc_returned>>

job_vars == <<job, job_returned, equity_history>>

utility_vars == <<fp_validated, precise, precise_call, wasm_signal, strategy_signal>>

vars == <<generator_vars, registry_vars, job_vars, utility_vars>>

\* ---------------------------------------------------------------- pure functions
\* The key under which a signal's position is looked up and stored
\* (signal.symbol in contains_key and in insert).
\* (variant: positions keyed by symbol and side)
KeyOfSymbolAndSide(signal) == <<signal.symbol, signal.side>>
KeyOf(signal) == signal.symbol

\* chrono's "%Y-%m-%dT%H:%M:%S%.3fZ" of a Unix-millisecond timestamp: the
\* calendar day and the millisecond of that day.
timestamp_to_iso_utc(timestamp) ==
    [day |-> timestamp \div MsPerDay, ms_of_day |-> timestamp % MsPerDay]

\* date: the part of exit_time_utc before 'T'
DateOf(iso) == iso.day

\* (quantity / lot_size).round() * lot_size; quantity is the rational
\* <<numerator, denominator>> in whole units, the result is in 1/QtyScale.
apply_symbol_filters(quantity, r) ==
    RoundHalfEven(quantity[1] * QtyScale, quantity[2] * r.lot_size) * r.lot_size

\* slippage per SlippageMode, added for a buy and subtracted for a sell,
\* then (execution_price / tick_size).round() * tick_size.
\* (variant: the slippage is added whatever the side)
apply_slippage_added(base_price, side, mode, r) ==
    LET slippage_rate == CASE mode = "None" -> 0
                           [] mode = "TradeSweep" -> 1
                           [] mode = "SyntheticBook" -> 5
        execution_price == base_price * SlipScale + base_price * slippage_rate
    IN  RoundHalfEven(execution_price, SlipScale * r.tick_size) * r.tick_size
apply_slippage(base_price, side, mode, r) ==
    LET slippage_rate == CASE mode = "None" -> 0
                           [] mode = "TradeSweep" -> 1
                           [] mode = "SyntheticBook" -> 5
        slippage == base_price * slippage_rate
        execution_price == IF side = "Buy" THEN base_price * SlipScale + slippage
                           ELSE base_price * SlipScale - slippage
    IN  RoundHalfEven(execution_price, SlipScale * r.tick_size) * r.tick_size

calculate_entry_price(b, side, policy, mode, r) ==
    LET base_price == CASE policy = "ExactTrades" -> b.close
                        [] policy = "OneSecondBars" -> b.open
                        [] policy = "LinearInterpolation" -> b.open
    IN  apply_slippage(base_price, side, mode, r)

\* notional * taker_fee, then (fee * 10^precision_price).round() / 10^precision_price
\* (variant: the maker rate instead of the taker rate)
calculate_fee_maker(quantity, price, r) ==
    LET notional == quantity * price
        precision == Pow10(r.precision_price)
    IN  RoundHalfEven(notional * r.maker_fee * precision, MoneyScale * FeeScale)
            * (MoneyScale \div precision)
calculate_fee(quantity, price, r) ==
    LET notional == quantity * price
        fee_rate == r.taker_fee
        precision == Pow10(r.precision_price)
    IN  RoundHalfEven(notional * fee_rate * precision, MoneyScale * FeeScale)
            * (MoneyScale \div precision)

ExitInfo(price, time, reason, hit) ==
    [exit_price |-> price, exit_time |-> time, exit_reason |-> reason, hit_tp_sl |-> hit]

\* u64 arithmetic, at the width of the model: a + b as a build without
\* overflow checks computes it, and whether a + b leaves the range (where a
\* build with overflow checks panics).
wrapping_add(a, b) == (a + b) % U64Modulus
add_overflows(a, b) == a + b >= U64Modulus

\* The candidates are pushed in the order take profit, stop loss, timeout and
\* the first one is returned: Option<ExitInfo>.
\* (variant: the timeout test with > instead of >=)
check_exit_conditions_exclusive_ttl(b, position) ==
    LET tp_c == IF IsSome(position.take_profit)
                   /\ (IF position.trade_type = "Long"
                       THEN b.high >= Unwrap(position.take_profit)
                       ELSE b.low <= Unwrap(position.take_profit))
                THEN <<ExitInfo(Unwrap(position.take_profit), b.timestamp,
                                "TakeProfit", "TakeProfit")>>
                ELSE <<>>
        sl_c == IF IsSome(position.stop_loss)
                   /\ (IF position.trade_type = "Long"
                       THEN b.low <= Unwrap(position.stop_loss)
                       ELSE b.high >= Unwrap(position.stop_loss))
                THEN <<ExitInfo(Unwrap(position.stop_loss), b.timestamp,
                                "StopLoss", "StopLoss")>>
                ELSE <<>>
        to_c == IF IsSome(position.time_to_live)
                   /\ b.timestamp > wrapping_add(position.entry_time,
                                                 Unwrap(position.time_to_live))
                THEN <<ExitInfo(b.close, b.timestamp, "Timeout", "None")>>
                ELSE <<>>
        exit_candidates == tp_c \o sl_c \o to_c
    IN  IF exit_candidates = <<>> THEN None ELSE Some(Head(exit_candidates))
\* (variant: a level counts as touched only when the bar goes through it)
check_exit_conditions_strict_touch(b, position) ==
    LET tp_c == IF IsSome(position.take_profit)
                   /\ (IF position.trade_type = "Long"
                       THEN b.high > Unwrap(position.take_profit)
                       ELSE b.low < Unwrap(position.take_profit))
                THEN <<ExitInfo(Unwrap(position.take_profit), b.timestamp,
                                "TakeProfit", "TakeProfit")>>
                ELSE <<>>
        sl_c == IF IsSome(position.stop_loss)
                   /\ (IF position.trade_type = "Long"
                       THEN b.low < Unwrap(position.stop_loss)
                       ELSE b.high > Unwrap(position.stop_loss))
                THEN <<ExitInfo(Unwrap(position.stop_loss), b.timestamp,
                                "StopLoss", "StopLoss")>>
                ELSE <<>>
        to_c == IF IsSome(position.time_to_live)
                   /\ b.timestamp >= wrapping_add(position.entry_time,
                                                  Unwrap(position.time_to_live))
                THEN <<ExitInfo(b.close, b.timestamp, "Timeout", "None")>>
                ELSE <<>>
        exit_candidates == tp_c \o sl_c \o to_c
    IN  IF exit_candidates = <<>> THEN None ELSE Some(Head(exit_candidates))
check_exit_conditions(b, position) ==
    LET tp_c == IF IsSome(position.take_profit)
                   /\ (IF position.trade_type = "Long"
                       THEN b.high >= Unwrap(position.take_profit)
                       ELSE b.low <= Unwrap(position.take_profit))
                THEN <<ExitInfo(Unwrap(position.take_profit), b.timestamp,
                                "TakeProfit", "TakeProfit")>>
                ELSE <<>>
        sl_c == IF IsSome(position.stop_loss)
                   /\ (IF position.trade_type = "Long"
                       THEN b.low <= Unwrap(position.stop_loss)
                       ELSE b.high >= Unwrap(position.stop_loss))
                THEN <<ExitInfo(Unwrap(position.stop_loss), b.timestamp,
                                "StopLoss", "StopLoss")>>
                ELSE <<>>
        to_c == IF IsSome(position.time_to_live)
                   /\ b.timestamp >= wrapping_add(position.entry_time,
                                                  Unwrap(position.time_to_live))
                THEN <<ExitInfo(b.close, b.timestamp, "Timeout", "None")>>
                ELSE <<>>
        exit_candidates == tp_c \o sl_c \o to_c
    IN  IF exit_candidates = <<>> THEN None ELSE Some(Head(exit_candidates))

\* The TradeRecord of a closed position.
create_trade_record(position, exit_info, r) ==
    LET exit_fee == calculate_fee(position.quantity, exit_info.exit_price, r)
        total_fees == position.entry_fee + exit_fee
        pnl_usd == IF position.trade_type = "Long"
                   THEN (exit_info.exit_price - position.entry_price) * position.quantity
                        - total_fees
                   ELSE (position.entry_price - exit_info.exit_price) * position.quantity
                        - total_fees
        exit_time_utc == timestamp_to_iso_utc(exit_info.exit_time)
    IN  [date |-> DateOf(exit_time_utc),
         trade_type |-> position.trade_type,
         entry_price |-> position.entry_price,
         entry_time_utc |-> timestamp_to_iso_utc(position.entry_time),
         exit_price |-> exit_info.exit_price,
         exit_time_utc |-> exit_time_utc,
         exit_reason |-> exit_info.exit_reason,
         hit_tp_sl |-> exit_info.hit_tp_sl,
         size_usd |-> position.size_usd,
         qty |-> position.quantity,
         fees_usd |-> total_fees,
         pnl_usd |-> pnl_usd,
         pnl_pct |-> DecimalDiv(pnl_usd, position.size_usd),
         symbol |-> position.symbol]

\* ---------------------------------------------------------------- process_bar steps
\* (variant: the position stays in the map)
MapRemoveNothing(m, key) == m
MapRemove(m, key) == [k \in DOMAIN m \ {key} |-> m[k]]
MapInsert(m, key, value) == [k \in DOMAIN m \cup {key} |-> IF k = key THEN value ELSE m[k]]

\* Body of the loop of process_entry_signals after the contains_key test:
\* size, filter, reject or open.  st = [positions, rejected, log].
AdmitSignal(st, b, signal, policy, mode, r) ==
    LET notional == default_size_usd
        raw_quantity == <<notional, b.close>>
        quantity == apply_symbol_filters(raw_quantity, r)
        final_notional == quantity * b.close
    IN  IF final_notional < r.min_notional
        THEN [st EXCEPT !.rejected =
                 Append(@, [timestamp |-> b.timestamp,
                            symbol |-> signal.symbol,
                            side |-> signal.side,
                            reason |-> "Rejected - NotionalMin",
                            notional |-> final_notional])]
        ELSE
          LET entry_price == calculate_entry_price(b, signal.side, policy, mode, r)
              entry_fee == calculate_fee(quantity, entry_price, r)
              position ==
                  [symbol |-> signal.symbol,
                   trade_type |-> IF signal.side = "Buy" THEN "Long" ELSE "Short",
                   entry_time |-> b.timestamp,
                   entry_price |-> entry_price,
                   quantity |-> quantity,
                   take_profit |-> signal.take_profit,
                   stop_loss |-> signal.stop_loss,
                   time_to_live |-> signal.time_to_live,
                   entry_fee |-> entry_fee,
                   size_usd |-> default_size_usd * MoneyScale]
          IN  [st EXCEPT !.positions = MapInsert(@, KeyOf(signal), position),
                         !.log = Append(@, <<signal.symbol, b.timestamp>>)]

\* (variant: no test for an existing position)
EntrySignalUnguarded(st, b, signal, policy, mode, r) ==
    AdmitSignal(st, b, signal, policy, mode, r)
\* One iteration of the loop of process_entry_signals: a signal whose symbol
\* has a position is skipped.
EntrySignal(st, b, signal, policy, mode, r) ==
    IF KeyOf(signal) \in DOMAIN st.positions
    THEN st
    ELSE AdmitSignal(st, b, signal, policy, mode, r)

\* (variant: the loop ends at the first rejection)
RECURSIVE process_entry_signals_stop_on_reject(_, _, _, _, _, _)
process_entry_signals_stop_on_reject(st, b, sigs, policy, mode, r) ==
    IF sigs = <<>> THEN st
    ELSE LET n == EntrySignal(st, b, Head(sigs), policy, mode, r)
         IN  IF Len(n.rejected) > Len(st.rejected) THEN n
             ELSE process_entry_signals_stop_on_reject(n, b, Tail(sigs), policy, mode, r)
\* for signal in signals { ... }
RECURSIVE process_entry_signals(_, _, _, _, _, _)
process_entry_signals(st, b, sigs, policy, mode, r) ==
    IF sigs = <<>> THEN st
    ELSE process_entry_signals(EntrySignal(st, b, Head(sigs), policy, mode, r),
                               b, Tail(sigs), policy, mode, r)

\* The orders in which a HashMap may iterate over the keys of the set S.
IterationOrders(S) ==
    { o \in [1..Cardinality(S) -> S] : \A i, j \in 1..Cardinality(S) : o[i] = o[j] => i = j }

\* Second loop of process_exits: remove each position to close and push its
\* trade record.  st = [positions, records]; to_close is a sequence of
\* <<key, exit_info>>.
RECURSIVE ClosePositions(_, _, _)
ClosePositions(st, to_close, r) ==
    IF to_close = <<>> THEN st
    ELSE LET key == Head(to_close)[1]
             exit_info == Head(to_close)[2]
         IN  IF key \in DOMAIN st.positions
             THEN ClosePositions(
                    [positions |-> MapRemove(st.positions, key),
                     records |-> Append(st.records,
                                        create_trade_record(st.positions[key], exit_info, r))],
                    Tail(to_close), r)
             ELSE ClosePositions(st, Tail(to_close), r)

\* (variant: the first loop ends at the first position that has an exit)
RECURSIVE PositionsToCloseFirstOnly(_, _, _)
PositionsToCloseFirstOnly(positions, b, order) ==
    IF order = <<>> THEN <<>>
    ELSE LET exit_info == check_exit_conditions(b, positions[Head(order)])
         IN  IF IsSome(exit_info) THEN <<<<Head(order), Unwrap(exit_info)>>>>
             ELSE PositionsToCloseFirstOnly(positions, b, Tail(order))

\* First loop of process_exits, iterating the map in the order `order`:
\* positions_to_close.
RECURSIVE PositionsToClose(_, _, _)
PositionsToClose(positions, b, order) ==
    IF order = <<>> THEN <<>>
    ELSE LET exit_info == check_exit_conditions(b, positions[Head(order)])
             rest == PositionsToClose(positions, b, Tail(order))
         IN  IF IsSome(exit_info) THEN <<<<Head(order), Unwrap(exit_info)>>>> \o rest
             ELSE rest

process_exits(positions, records, b, order, r) ==
    ClosePositions([positions |-> positions, records |-> records],
                   PositionsToClose(positions, b, order), r)

\* [current_equity, peak_equity, max_drawdown] after the update.
\* (variant: the realized PnL is added to the peak instead of the literal)
update_equity_from_peak(records, peak, max_dd) ==
    LET realized_pnl == SumPnl(records)
        equity == peak + realized_pnl
        new_peak == IF equity > peak THEN equity ELSE peak
        current_drawdown == DecimalDiv(new_peak - equity, new_peak)
    IN  [current_equity |-> equity,
         peak_equity |-> new_peak,
         max_drawdown |-> IF current_drawdown > max_dd THEN current_drawdown ELSE max_dd]
\* (variant: max_drawdown is overwritten with the current drawdown)
update_equity_last_drawdown(records, peak, max_dd) ==
    LET realized_pnl == SumPnl(records)
        equity == starting_equity * MoneyScale + realized_pnl
        new_peak == IF equity > peak THEN equity ELSE peak
        current_drawdown == DecimalDiv(new_peak - equity, new_peak)
    IN  [current_equity |-> equity,
         peak_equity |-> new_peak,
         max_drawdown |-> current_drawdown]
\* (variant: the current drawdown is added to max_drawdown)
update_equity_drawdown_added(records, peak, max_dd) ==
    LET realized_pnl == SumPnl(records)
        equity == starting_equity * MoneyScale + realized_pnl
        new_peak == IF equity > peak THEN equity ELSE peak
        current_drawdown == DecimalDiv(new_peak - equity, new_peak)
    IN  [current_equity |-> equity,
         peak_equity |-> new_peak,
         max_drawdown |-> max_dd + current_drawdown]
update_equity_and_drawdown(records, peak, max_dd) ==
    LET realized_pnl == SumPnl(records)
        equity == starting_equity * MoneyScale + realized_pnl
        new_peak == IF equity > peak THEN equity ELSE peak
        current_drawdown == DecimalDiv(new_peak - equity, new_peak)
    IN  [current_equity |-> equity,
         peak_equity |-> new_peak,
         max_drawdown |-> IF current_drawdown > max_dd THEN current_drawdown ELSE max_dd]

\* ---------------------------------------------------------------- generate_result
\* The shape of every string timestamp_to_iso_utc produces for the years
\* 1970..9999.
IsoShape == "YYYY-MM-DDTHH:MM:SS.mmmZ"

\* iso_string.len() as u64
iso_utc_to_timestamp(iso_string) == Len(IsoShape)

\* |trade| trade.pnl_usd > dec!(0.0) of the wins count
\* (variant: a record with pnl_usd = 0 counts as a win)
IsWinOrFlat(trade) == trade.pnl_usd >= 0
IsWin(trade) == trade.pnl_usd > 0

RECURSIVE SumAbsPnl(_)
SumAbsPnl(records) ==
    IF records = <<>> THEN 0 ELSE Abs(Head(records).pnl_usd) + SumAbsPnl(Tail(records))

RECURSIVE SumHoldingTime(_)
SumHoldingTime(records) ==
    IF records = <<>> THEN 0
    ELSE (iso_utc_to_timestamp(Head(records).exit_time_utc)
            - iso_utc_to_timestamp(Head(records).entry_time_utc))
         + SumHoldingTime(Tail(records))

\* if gross_loss > 0 { gross_profit / gross_loss } else { 0 }
\* (variant: the quotient without the test)
profit_factor_unguarded(gross_profit, gross_loss) ==
    Division(gross_profit, gross_loss, RatioDigits)
profit_factor_of(gross_profit, gross_loss) ==
    IF gross_loss > 0 THEN Division(gross_profit, gross_loss, RatioDigits) ELSE Some(0)

\* The TradeSummary of a ledger; None when a division panics.  win_rate is
\* in units of 10^-DivDigits percent, the averages and the expectancy in
\* money units, avg_holding_time_hours in 10^-DivDigits hours.  The
\* expectancy (win_rate/100) * avg_win + (1 - win_rate/100) * avg_loss is
\* taken as the rational (wins * avg_win + losses * avg_loss) / total.
calculate_summary(records, max_dd) ==
    LET total_trades == Len(records)
        wins == Len(SelectSeq(records, IsWin))
        losses == total_trades - wins
        win_rate == IF total_trades > 0
                    THEN Division(wins, total_trades, DivDigits) ELSE Some(0)
        net_pnl_usd == SumPnl(records)
        winning_trades == SelectSeq(records, LAMBDA trade : trade.pnl_usd > 0)
        losing_trades == SelectSeq(records, LAMBDA trade : trade.pnl_usd <= 0)
        avg_win_usd == IF wins > 0
                       THEN Division(SumPnl(winning_trades), wins, 0) ELSE Some(0)
        avg_loss_usd == IF losses > 0
                        THEN Division(SumPnl(losing_trades), losses, 0) ELSE Some(0)
        gross_profit == SumPnl(winning_trades)
        gross_loss == SumAbsPnl(losing_trades)
        profit_factor == profit_factor_of(gross_profit, gross_loss)
        total_holding_time_ms == SumHoldingTime(records)
        avg_holding_time_hours ==
            IF total_trades > 0
            THEN Division(total_holding_time_ms, total_trades * MsPerHour, DivDigits)
            ELSE Some(0)
    IN  IF total_trades = 0
        THEN Some([total_trades |-> 0, wins |-> 0, losses |-> 0, win_rate |-> 0,
                   net_pnl_usd |-> 0, avg_win_usd |-> 0, avg_loss_usd |-> 0,
                   expectancy |-> 0, max_drawdown |-> max_dd, profit_factor |-> 0,
                   avg_holding_time_hours |-> 0])
        ELSE IF None \in {win_rate, avg_win_usd, avg_loss_usd, profit_factor,
                          avg_holding_time_hours}
        THEN None
        ELSE Some([total_trades |-> total_trades,
                   wins |-> wins,
                   losses |-> losses,
                   win_rate |-> Unwrap(win_rate) * 100,
                   net_pnl_usd |-> net_pnl_usd,
                   avg_win_usd |-> Unwrap(avg_win_usd),
                   avg_loss_usd |-> Unwrap(avg_loss_usd),
                   expectancy |-> DecimalDivTo(wins * Unwrap(avg_win_usd)
                                                 + losses * Unwrap(avg_loss_usd),
                                               total_trades, 0),
                   max_drawdown |-> max_dd,
                   profit_factor |-> Unwrap(profit_factor),
                   avg_holding_time_hours |-> Unwrap(avg_holding_time_hours)])

\* TradeTableResult { trades: clone, summary, rejected_trades: clone }
generate_result(records, rejected, max_dd) ==
    LET summary == calculate_summary(records, max_dd)
    IN  IF IsSome(summary)
        THEN Some([trades |-> records, summary |-> Unwrap(summary),
                   rejected_trades |-> rejected])
        ELSE None

\* generate_result takes &self and clones: a ledger is the same after the call.
\* (variant: the ledger is moved into the result)
Taken(ledger) == <<>>
Borrowed(ledger) == ledger

\* ---------------------------------------------------------------- indicators
RECURSIVE SumSeq(_)
SumSeq(seq) == IF seq = <<>> THEN 0 ELSE Head(seq) + SumSeq(Tail(seq))

Closes(bars) == [i \in DOMAIN bars |-> bars[i].close]

MaxOf(S) == CHOOSE x \in S : \A y \in S : y <= x
MinOf(S) == CHOOSE x \in S : \A y \in S : x <= y

IndicatorValue(timestamp, value) == [timestamp |-> timestamp, value |-> value]

\* Values of the bars from index i on, given the EMA before them:
\* ema = alpha * close + (1 - alpha) * ema with alpha = 2 / (period + 1).
RECURSIVE EmaFrom(_, _, _, _)
EmaFrom(bars, period, i, ema) ==
    IF i > Len(bars) THEN <<>>
    ELSE LET next == DecimalDivTo(2 * bars[i].close * IndScale + (period - 1) * ema,
                                  period + 1, 0)
         IN  <<IndicatorValue(bars[i].timestamp, next)>> \o EmaFrom(bars, period, i + 1, next)

calculate_ema(bars, period) ==
    IF Len(bars) < period THEN <<>>
    ELSE LET ema == DecimalDivTo(SumSeq(SubSeq(Closes(bars), 1, period)), period, IndDigits)
         IN  <<IndicatorValue(bars[period].timestamp, ema)>>
               \o EmaFrom(bars, period, period + 1, ema)

\* The f64 path: the closes of the model are integers, so every f64 sum is
\* exact, and Decimal::from_f64 of sum / period gives the decimal quotient.
calculate_sma_simd(bars, period) ==
    [i \in 1..(Len(bars) - period + 1) |->
        IndicatorValue(bars[i + period - 1].timestamp,
                       DecimalDivTo(SumSeq(SubSeq(Closes(bars), i, i + period - 1)),
                                    period, IndDigits))]

calculate_sma(simd, bars, period) ==
    IF Len(bars) < period THEN <<>>
    ELSE IF simd /\ period >= 8 THEN calculate_sma_simd(bars, period)
    ELSE [i \in 1..(Len(bars) - period + 1) |->
            IndicatorValue(bars[i + period - 1].timestamp,
                           DecimalDivTo(SumSeq(SubSeq(Closes(bars), i, i + period - 1)),
                                        period, IndDigits))]

\* gains[j], losses[j]: the change from bar j to bar j + 1.
Gains(bars) ==
    [j \in 1..(Len(bars) - 1) |->
        LET change == bars[j + 1].close - bars[j].close
        IN  IF change > 0 THEN change ELSE 0]
Losses(bars) ==
    [j \in 1..(Len(bars) - 1) |->
        LET change == bars[j + 1].close - bars[j].close
        IN  IF change > 0 THEN 0 ELSE -change]

\* rs and rsi of the smoothed averages.
RsiOf(avg_gain, avg_loss) ==
    LET rs == IF avg_loss = 0 THEN 100 * IndScale
              ELSE DecimalDivTo(avg_gain, avg_loss, IndDigits)
    IN  100 * IndScale - DecimalDivTo(100 * IndScale, IndScale + rs, IndDigits)

RECURSIVE RsiFrom(_, _, _, _, _)
RsiFrom(bars, period, j, avg_gain, avg_loss) ==
    IF j > Len(bars) - 1 THEN <<>>
    ELSE LET g == DecimalDivTo(avg_gain * (period - 1) + Gains(bars)[j] * IndScale, period, 0)
             l == DecimalDivTo(avg_loss * (period - 1) + Losses(bars)[j] * IndScale, period, 0)
         IN  <<IndicatorValue(bars[j + 1].timestamp, RsiOf(g, l))>>
               \o RsiFrom(bars, period, j + 1, g, l)

\* Variant: the seed averages give a value of their own, stamped at the bar
\* that closes the seed window.
calculate_rsi_with_seed(bars, period) ==
    IF Len(bars) < period + 1 THEN <<>>
    ELSE LET avg_gain == DecimalDivTo(SumSeq(SubSeq(Gains(bars), 1, period)), period, IndDigits)
             avg_loss == DecimalDivTo(SumSeq(SubSeq(Losses(bars), 1, period)), period, IndDigits)
         IN  <<IndicatorValue(bars[period + 1].timestamp, RsiOf(avg_gain, avg_loss))>>
               \o RsiFrom(bars, period, period + 1, avg_gain, avg_loss)

calculate_rsi(bars, period) ==
    IF Len(bars) < period + 1 THEN <<>>
    ELSE RsiFrom(bars, period, period + 1,
                 DecimalDivTo(SumSeq(SubSeq(Gains(bars), 1, period)), period, IndDigits),
                 DecimalDivTo(SumSeq(SubSeq(Losses(bars), 1, period)), period, IndDigits))

TrueRanges(bars) ==
    [j \in 1..(Len(bars) - 1) |->
        MaxOf({bars[j + 1].high - bars[j + 1].low,
               Abs(bars[j + 1].high - bars[j].close),
               Abs(bars[j + 1].low - bars[j].close)})]

RECURSIVE AtrFrom(_, _, _, _)
AtrFrom(bars, period, j, atr) ==
    IF j > Len(bars) - 1 THEN <<>>
    ELSE LET next == DecimalDivTo(atr * (period - 1) + TrueRanges(bars)[j] * IndScale,
                                  period, 0)
         IN  <<IndicatorValue(bars[j + 1].timestamp, next)>>
               \o AtrFrom(bars, period, j + 1, next)

calculate_atr(bars, period) ==
    IF Len(bars) < period + 1 THEN <<>>
    ELSE LET atr == DecimalDivTo(SumSeq(SubSeq(TrueRanges(bars), 1, period)),
                                 period, IndDigits)
         IN  <<IndicatorValue(bars[period + 1].timestamp, atr)>>
               \o AtrFrom(bars, period, period + 1, atr)

RECURSIVE VwapFrom(_, _, _, _)
VwapFrom(bars, i, cumulative_volume, cumulative_volume_price) ==
    IF i > Len(bars) THEN <<>>
    ELSE LET typical_price == DecimalDivTo(bars[i].high + bars[i].low + bars[i].close,
                                           3, IndDigits)
             volume_price == cumulative_volume_price + typical_price * bars[i].volume
             volume == cumulative_volume + bars[i].volume
             vwap == IF volume > 0 THEN DecimalDivTo(volume_price, volume, 0) ELSE 0
         IN  <<IndicatorValue(bars[i].timestamp, vwap)>>
               \o VwapFrom(bars, i + 1, volume, volume_price)

calculate_vwap(bars) == VwapFrom(bars, 1, 0, 0)

calculate_highest_high(bars, period) ==
    IF Len(bars) < period THEN <<>>
    ELSE [i \in 1..(Len(bars) - period + 1) |->
            IndicatorValue(bars[i + period - 1].timestamp,
                           MaxOf({bars[k].high : k \in i..(i + period - 1)}) * IndScale)]

calculate_lowest_low(bars, period) ==
    IF Len(bars) < period THEN <<>>
    ELSE [i \in 1..(Len(bars) - period + 1) |->
            IndicatorValue(bars[i + period - 1].timestamp,
                           MinOf({bars[k].low : k \in i..(i + period - 1)}) * IndScale)]

SupportedIndicators == {"ema", "sma", "rsi", "atr", "vwap", "hh", "ll"}

\* Result<Vec<IndicatorValue>>
Ok(values) == [ok |-> TRUE, values |-> values]
Err(message) == [ok |-> FALSE, values |-> <<>>]

\* format!("{}_{}", indicator_name, market_data.symbol)
CacheKey(indicator_name, market_data) == indicator_name \o "_" \o market_data.symbol

\* IndicatorRegistry::calculate: [returned, cache] of a call on a registry
\* whose cache is c.
calculate(c, simd, indicator_name, market_data) ==
    LET cache_key == CacheKey(indicator_name, market_data)
        bars == market_data.bars
    IN  IF cache_key \in DOMAIN c
        THEN [returned |-> Ok(c[cache_key]), cache |-> c]
        ELSE IF bars = <<>>
        THEN [returned |-> Ok(<<>>), cache |-> c]
        ELSE IF indicator_name \notin SupportedIndicators
        THEN [returned |-> Err("Unknown indicator"), cache |-> c]
        ELSE LET values ==
                   CASE indicator_name = "ema" -> calculate_ema(bars, long_period)
                     [] indicator_name = "sma" -> calculate_sma(simd, bars, long_period)
                     [] indicator_name = "rsi" -> calculate_rsi(bars, short_period)
                     [] indicator_name = "atr" -> calculate_atr(bars, short_period)
                     [] indicator_name = "vwap" -> calculate_vwap(bars)
                     [] indicator_name = "hh" -> calculate_highest_high(bars, long_period)
                     [] indicator_name = "ll" -> calculate_lowest_low(bars, long_period)
             IN  [returned |-> Ok(values), cache |-> MapInsert(c, cache_key, values)]

\* Market data given to the registry: a steadily rising series, a zigzag
\* series and the empty series, for each symbol.
IndicatorBar(i, close, spread) ==
    [timestamp |-> i * TimeStep, open |-> close, high |-> close + spread,
     low |-> close - spread, close |-> close, volume |-> 1 + (i % 3)]

RisingSeries == [i \in 1..SeriesLen |-> IndicatorBar(i, 100 + i, 1)]
ZigzagSeries == [i \in 1..SeriesLen |-> IndicatorBar(i, 110 + 3 * (i % 2) - (i % 5), 2)]

MarketDatas ==
    { [symbol |-> sym, bars |-> series] :
        sym \in Symbols, series \in {RisingSeries, ZigzagSeries, <<>>} }

\* Market data of every length up to SeriesLen: the series cut after n bars.
SeriesOfEveryLength ==
    { [symbol |-> sym, bars |-> SubSeq(series, 1, n)] :
        sym \in Symbols, series \in {RisingSeries, ZigzagSeries}, n \in 0..SeriesLen }

\* The indicator names the strategies of the run ask for, and one the
\* registry does not know.
RequestedIndicators == {"sma", "rsi", "vwap", "macd"}

\* ---------------------------------------------------------------- engine
\* Strategy::get_required_indicators
RequiredIndicators == <<"ema", "rsi">>

\* Result<MarketData> of load_market_data for a symbol whose data source
\* delivers no bars, a series of bars, or fails.
load_market_data(symbol, source) ==
    CASE source = "empty" -> [ok |-> TRUE, market_data |-> [symbol |-> symbol, bars |-> <<>>]]
      [] source = "series" ->
           [ok |-> TRUE, market_data |-> [symbol |-> symbol, bars |-> RisingSeries]]
      [] source = "failed" -> [ok |-> FALSE, error |-> "load_market_data"]

\* The value of an expression over a local variable that is computed once:
\* TheOnly({ e(x) : x \in {v} }) is e(v).
TheOnly(S) == CHOOSE x \in S : TRUE

\* for indicator_name in strategy.get_required_indicators() { calculate(..)? }
RECURSIVE calculate_required(_, _, _, _)
calculate_required(c, simd, names, market_data) ==
    IF names = <<>> THEN [ok |-> TRUE, cache |-> c]
    ELSE TheOnly({ IF ~done.returned.ok THEN [ok |-> FALSE, cache |-> done.cache]
                   ELSE calculate_required(done.cache, simd, Tail(names), market_data) :
                   done \in { calculate(c, simd, Head(names), market_data) } })

\* update_equity once per bar of a simulate call: the simulator holds no
\* position, so every point is the starting equity without drawdown or
\* exposure.
EquityPoints(bars) ==
    [i \in DOMAIN bars |->
        [timestamp |-> bars[i].timestamp, equity |-> starting_equity * MoneyScale,
         drawdown |-> 0, exposure |-> 0]]

\* execute_symbol_backtest on an engine whose registry cache is st.cache,
\* whose generator processed st.bar last and whose simulator holds
\* st.equity_history: [returned, st].  The strategy gives no signals
\* (get_strategy_signals), so simulate passes every bar to process_bar with
\* an empty signal list and the ledger stays as it is; trade_table is what
\* generate_result returns for it.  equity_curve is the simulator's
\* equity_history after the bars of the symbol.
execute_symbol_backtest(st, simd, symbol, source, trade_table) ==
    LET loaded == load_market_data(symbol, source)
    IN  IF ~loaded.ok
        THEN [returned |-> [ok |-> FALSE, error |-> loaded.error], st |-> st]
        ELSE LET market_data == loaded.market_data
             IN  TheOnly({
                   IF ~indicators.ok
                   THEN [returned |-> [ok |-> FALSE, error |-> "Unknown indicator"],
                         st |-> [st EXCEPT !.cache = indicators.cache]]
                   ELSE [returned |->
                            [ok |-> TRUE,
                             value |-> [symbol |-> symbol,
                                        equity_curve |-> st.equity_history
                                                           \o EquityPoints(market_data.bars),
                                        trade_table |-> trade_table]],
                         st |-> [cache |-> indicators.cache,
                                 bar |-> IF market_data.bars = <<>> THEN st.bar
                                         ELSE Some(market_data.bars[Len(market_data.bars)]),
                                 equity_history |-> st.equity_history
                                                      \o EquityPoints(market_data.bars)]] :
                   indicators \in { calculate_required(st.cache, simd, RequiredIndicators,
                                                       market_data) } })

\* The loop of execute_job over the symbols still to run: each symbol's
\* result is unwrapped with `?`.
RECURSIVE execute_symbols(_, _, _, _, _, _)
execute_symbols(st, simd, symbols, sources, trade_table, symbol_results) ==
    IF symbols = <<>>
    THEN [returned |-> [ok |-> TRUE, value |-> [symbol_results |-> symbol_results]],
          st |-> st]
    ELSE TheOnly({
           IF ~done.returned.ok
           THEN [returned |-> [ok |-> FALSE, error |-> done.returned.error],
                 st |-> done.st]
           ELSE execute_symbols(done.st, simd, Tail(symbols), sources, trade_table,
                                Append(symbol_results, done.returned.value)) :
           done \in { execute_symbol_backtest(st, simd, Head(symbols),
                                              sources[Head(symbols)], trade_table) } })

\* execute_job, once the strategy is loaded.
execute_job(st, simd, j, trade_table) ==
    execute_symbols(st, simd, j.symbols, j.sources, trade_table, <<>>)

\* Jobs over one or two symbols; sources tells what the data source of each
\* symbol delivers.
JobSymbolLists ==
    { <<a>> : a \in Symbols }
    \cup { l \in { <<a, b>> : a \in Symbols, b \in Symbols } : l[1] # l[2] }

Jobs ==
    UNION { { [symbols |-> l, sources |-> f] :
                f \in [ {l[i] : i \in DOMAIN l} -> {"empty", "series", "failed"} ] } :
            l \in JobSymbolLists }

\* ---------------------------------------------------------------- actions
\* TradeTableGenerator::new(), and the policy, slippage mode and rules the
\* run passes to every process_bar.
NewGenerator(configs) ==
    /\ active_positions = <<>>
    /\ trade_records = <<>>
    /\ rejected_trades = <<>>
    /\ current_equity = starting_equity * MoneyScale
    /\ peak_equity = starting_equity * MoneyScale
    /\ max_drawdown = 0
    /\ \E c \in configs : /\ intrabar_policy = c[1]
                          /\ slippage_mode = c[2]
                          /\ rules = c[3]
    /\ bar = None
    /\ signals = <<>>
    /\ entry_log = <<>>
    /\ result = None
    /\ panic = None

\* IndicatorRegistry::new(enable_simd), in a process that has not run
\* validate_fp_determinism.
NewRegistry(simd_options) ==
    /\ enable_simd \in simd_options
    /\ cache = <<>>
    /\ calc_call = None
    /\ calc_returned = None
    /\ fp_validated = FALSE
    /\ precise = None
    /\ precise_call = None
    /\ wasm_signal = None
    /\ strategy_signal = None

\* No job has been executed yet: ExchangeSimulator::new().
NoJob == job = None /\ job_returned = None /\ equity_history = <<>>

\* EngineConfig::default(): enable_simd: true
Init == NewGenerator(Configs) /\ NewRegistry({TRUE}) /\ NoJob

\* (variant: exits are evaluated before the bar's signals are admitted)
process_bar_exits_first(b, sigs) ==
    \E order \in IterationOrders(DOMAIN active_positions) :
    \E exited \in { process_exits(active_positions, trade_records, b, order, rules) } :
    \E entered \in { process_entry_signals(
                       [positions |-> exited.positions, rejected |-> rejected_trades,
                        log |-> entry_log],
                       b, sigs, intrabar_policy, slippage_mode, rules) } :
    \E equity \in { update_equity_and_drawdown(exited.records, peak_equity, max_drawdown) } :
        /\ active_positions' = entered.positions
        /\ trade_records' = exited.records
        /\ rejected_trades' = entered.rejected
        /\ entry_log' = entered.log
        /\ current_equity' = equity.current_equity
        /\ peak_equity' = equity.peak_equity
        /\ max_drawdown' = equity.max_drawdown
        /\ bar' = Some(b)
        /\ signals' = sigs
        /\ UNCHANGED <<intrabar_policy, slippage_mode, rules>>

\* process_bar(b, sigs, intrabar_policy, slippage_mode, rules): entries, then
\* exits, then equity.  Each intermediate result is bound once, as a local
\* variable of the function is; order is the order in which the HashMap
\* iterates in process_exits.
process_bar(b, sigs) ==
    \E entered \in { process_entry_signals(
                       [positions |-> active_positions, rejected |-> rejected_trades,
                        log |-> entry_log],
                       b, sigs, intrabar_policy, slippage_mode, rules) } :
    \E order \in IterationOrders(DOMAIN entered.positions) :
    \E exited \in { process_exits(entered.positions, trade_records, b, order, rules) } :
    \E equity \in { update_equity_and_drawdown(exited.records, peak_equity, max_drawdown) } :
        /\ active_positions' = exited.positions
        /\ trade_records' = exited.records
        /\ rejected_trades' = entered.rejected
        /\ entry_log' = entered.log
        /\ current_equity' = equity.current_equity
        /\ peak_equity' = equity.peak_equity
        /\ max_drawdown' = equity.max_drawdown
        /\ bar' = Some(b)
        /\ signals' = sigs
        /\ UNCHANGED <<intrabar_policy, slippage_mode, rules>>

LastTime == IF IsSome(bar) THEN Unwrap(bar).timestamp ELSE 0

\* The caller feeds the next bar of the series (strictly ascending
\* timestamps) with the signals the strategy produced on it.
FeedBar(bars, lists) ==
    /\ panic = None
    /\ \E b \in bars :
         /\ b.timestamp > LastTime
         /\ \E sigs \in lists : process_bar(b, sigs)
    /\ UNCHANGED <<result, panic>>
    /\ UNCHANGED registry_vars
    /\ UNCHANGED job_vars
    /\ UNCHANGED utility_vars

\* The bars of all timestamps of the model.
AllBars == UNION { Bars(t * TimeStep) : t \in 1..MaxTime }
AllWideBars == UNION { WideBars(t * TimeStep) : t \in 1..MaxTime }

ProcessBar == FeedBar(AllBars, SignalLists)

\* generate_result(), at any point of the run.
GenerateResult ==
    /\ panic = None
    /\ LET returned == generate_result(trade_records, rejected_trades, max_drawdown)
       IN  IF IsSome(returned)
           THEN result' = returned /\ panic' = None
           ELSE result' = result /\ panic' = Some("calculate_summary")
    /\ trade_records' = Borrowed(trade_records)
    /\ rejected_trades' = Borrowed(rejected_trades)
    /\ UNCHANGED <<active_positions, current_equity, peak_equity, max_drawdown,
                   intrabar_policy, slippage_mode, rules, bar, signals, entry_log>>
    /\ UNCHANGED registry_vars
    /\ UNCHANGED job_vars
    /\ UNCHANGED utility_vars

Next == ProcessBar

Spec == Init /\ [][Next]_vars

\* The run with generate_result called at any point between the bars.
ResultConfigs ==
    { <<"ExactTrades", "None", FineRules>>,
      <<"LinearInterpolation", "None", CoarseRules>>,
      <<"ExactTrades", "None", ZeroLotRules>> }

\* One signal for one symbol at a time.
ResultSignalLists ==
    { <<>>,
      <<Signal("A", "Buy", TRUE, None)>>,
      <<Signal("A", "Sell", TRUE, None)>>,
      <<Signal("A", "Buy", FALSE, Some(TimeStep))>> }

InitResult == NewGenerator(ResultConfigs) /\ NewRegistry({TRUE}) /\ NoJob

ProcessResultBar == FeedBar(AllBars, ResultSignalLists)

NextResult == ProcessResultBar \/ GenerateResult

SpecResult == InitResult /\ [][NextResult]_vars

\* The registry of an engine, serving calculate calls.
Calculate ==
    /\ \E indicator_name \in RequestedIndicators, market_data \in MarketDatas :
         \E done \in { calculate(cache, enable_simd, indicator_name, market_data) } :
           /\ cache' = done.cache
           /\ calc_returned' = Some(done.returned)
           /\ calc_call' = Some([indicator_name |-> indicator_name,
                                  market_data |-> market_data])
    /\ UNCHANGED enable_simd
    /\ UNCHANGED generator_vars
    /\ UNCHANGED job_vars
    /\ UNCHANGED utility_vars

InitIndicators == NewGenerator({<<"ExactTrades", "None", FineRules>>})
                  /\ NewRegistry({TRUE, FALSE}) /\ NoJob

NextIndicators == Calculate

SpecIndicators == InitIndicators /\ [][NextIndicators]_vars

\* The same generator fed with the wide price range.
\* The bar loop over market data that nothing has validated: any bar may
\* follow any bar.  The run ends after MaxEntries positions.
ProcessAnyBar ==
    /\ panic = None
    /\ Len(entry_log) < MaxEntries
    /\ \E b \in AnyBars, sigs \in AnySignalLists : process_bar(b, sigs)
    /\ UNCHANGED <<result, panic>>
    /\ UNCHANGED registry_vars
    /\ UNCHANGED job_vars
    /\ UNCHANGED utility_vars

InitAnyBar == NewGenerator({<<"ExactTrades", "None", FineRules>>}) /\ NewRegistry({TRUE})
              /\ NoJob

NextAnyBar == ProcessAnyBar

SpecAnyBar == InitAnyBar /\ [][NextAnyBar]_vars

\* The first computation of a registry, for any supported indicator over a
\* series of any length.
CalculateFirst ==
    /\ cache = <<>>
    /\ \E indicator_name \in SupportedIndicators, market_data \in SeriesOfEveryLength :
         \E done \in { calculate(cache, enable_simd, indicator_name, market_data) } :
           /\ cache' = done.cache
           /\ calc_returned' = Some(done.returned)
           /\ calc_call' = Some([indicator_name |-> indicator_name,
                                  market_data |-> market_data])
    /\ UNCHANGED enable_simd
    /\ UNCHANGED generator_vars
    /\ UNCHANGED job_vars
    /\ UNCHANGED utility_vars

NextSeries == CalculateFirst

\* validate_fp_determinism(): ten times the f64 sum 0.1 + 0.2 + 0.3 + 0.4 + 0.5,
\* which is 1.5 exactly, so the function returns Ok.  Nothing of the engine
\* reads its result.
ValidateFpDeterminism ==
    /\ fp_validated' = TRUE
    /\ UNCHANGED <<precise, precise_call, wasm_signal, strategy_signal>>
    /\ UNCHANGED generator_vars
    /\ UNCHANGED registry_vars
    /\ UNCHANGED job_vars

\* A process that computes indicators and may run the self-test at any time.
NextFp == CalculateFirst \/ ValidateFpDeterminism

SpecFp == InitIndicators /\ [][NextFp]_vars

SpecSeries == InitIndicators /\ [][NextSeries]_vars

\* Runs whose signals carry a size and an entry price.
InitSized == NewGenerator(SizedConfigs) /\ NewRegistry({TRUE}) /\ NoJob

ProcessSizedBar == FeedBar(AllBars, SizedSignalLists)

NextSized == ProcessSizedBar

SpecSized == InitSized /\ [][NextSized]_vars

\* process_entry_signals evaluates notional / bar.close for the first signal
\* of the list whose symbol has no position.
DividesByClose(positions, sigs) ==
    \E i \in DOMAIN sigs : KeyOf(sigs[i]) \notin DOMAIN positions

\* process_bar on a bar of any close: the Decimal division notional /
\* bar.close panics when the close is 0, before anything of the call is
\* stored; the thread unwinds out of process_bar.
process_bar_or_panic(b, sigs) ==
    IF /\ DividesByClose(active_positions, sigs)
       /\ Division(default_size_usd, b.close, DivDigits) = None
    THEN /\ panic' = Some("Division by zero")
         /\ bar' = Some(b)
         /\ signals' = sigs
         /\ UNCHANGED <<active_positions, trade_records, rejected_trades, current_equity,
                        peak_equity, max_drawdown, intrabar_policy, slippage_mode, rules,
                        entry_log>>
    ELSE /\ process_bar(b, sigs)
         /\ UNCHANGED panic

ProcessZeroBar ==
    /\ panic = None
    /\ \E b \in ZeroBars :
         /\ b.timestamp > LastTime
         /\ \E sigs \in ZeroSignalLists : process_bar_or_panic(b, sigs)
    /\ UNCHANGED result
    /\ UNCHANGED registry_vars
    /\ UNCHANGED job_vars
    /\ UNCHANGED utility_vars

InitZero == NewGenerator({<<"ExactTrades", "None", FineRules>>,
                          <<"OneSecondBars", "TradeSweep", CoarseRules>>})
            /\ NewRegistry({TRUE}) /\ NoJob

NextZero == ProcessZeroBar

SpecZero == InitZero /\ [][NextZero]_vars

\* Signals whose time to live may be 0 ms.
ImmediateSignalLists ==
    { <<>>,
      <<Signal("A", "Buy", FALSE, Some(0))>>,
      <<Signal("A", "Buy", TRUE, None)>>,
      <<Signal("A", "Sell", TRUE, Some(TimeStep))>>,
      <<Signal("A", "Sell", FALSE, None)>>,
      <<Signal("A", "Buy", TRUE, None), Signal("B", "Sell", FALSE, Some(0))>> }

ProcessImmediateBar == FeedBar(AllBars, ImmediateSignalLists)

InitImmediate == NewGenerator({<<"ExactTrades", "None", FineRules>>,
                               <<"OneSecondBars", "TradeSweep", CoarseRules>>,
                               <<"LinearInterpolation", "SyntheticBook", FineRules>>})
                 /\ NewRegistry({TRUE}) /\ NoJob

NextImmediate == ProcessImmediateBar

SpecImmediate == InitImmediate /\ [][NextImmediate]_vars

\* Signals whose time to live reaches the end of the u64 range.
LongLivedSignalLists ==
    { <<>>,
      <<Signal("A", "Buy", FALSE, Some(U64Max))>>,
      <<Signal("A", "Sell", FALSE, Some(U64Modulus - TimeStep))>>,
      <<Signal("A", "Buy", FALSE, Some(U64Max - MaxTime * TimeStep))>>,
      <<Signal("A", "Sell", TRUE, Some(TimeStep))>>,
      <<Signal("B", "Buy", TRUE, Some(U64Max))>> }

\* Some position that process_exits evaluates has entry_time + ttl outside
\* the u64 range.
ExitAdditionOverflows(positions) ==
    \E k \in DOMAIN positions :
        /\ IsSome(positions[k].time_to_live)
        /\ add_overflows(positions[k].entry_time, Unwrap(positions[k].time_to_live))

\* process_bar up to the panic of `position.entry_time + ttl` in
\* process_exits: the entries of the bar are stored, nothing else is.
process_bar_until_overflow(b, sigs) ==
    \E entered \in { process_entry_signals(
                       [positions |-> active_positions, rejected |-> rejected_trades,
                        log |-> entry_log],
                       b, sigs, intrabar_policy, slippage_mode, rules) } :
        /\ ExitAdditionOverflows(entered.positions)
        /\ panic' = Some("attempt to add with overflow")
        /\ active_positions' = entered.positions
        /\ rejected_trades' = entered.rejected
        /\ entry_log' = entered.log
        /\ bar' = Some(b)
        /\ signals' = sigs
        /\ UNCHANGED <<trade_records, current_equity, peak_equity, max_drawdown,
                       intrabar_policy, slippage_mode, rules>>

\* process_bar in either build: with overflow checks the overflowing
\* addition panics, without them it wraps around.
ProcessLongLivedBar ==
    /\ panic = None
    /\ \E b \in AllBars :
         /\ b.timestamp > LastTime
         /\ \E sigs \in LongLivedSignalLists :
              \/ process_bar_until_overflow(b, sigs)
              \/ process_bar(b, sigs) /\ UNCHANGED panic
    /\ UNCHANGED result
    /\ UNCHANGED registry_vars
    /\ UNCHANGED job_vars
    /\ UNCHANGED utility_vars

InitLongLived == NewGenerator({<<"ExactTrades", "None", FineRules>>,
                               <<"OneSecondBars", "TradeSweep", CoarseRules>>})
                 /\ NewRegistry({TRUE}) /\ NoJob

NextLongLived == ProcessLongLivedBar

SpecLongLived == InitLongLived /\ [][NextLongLived]_vars

\* ------------------------------------------------------------ precision.rs
\* Decimal values of PreciseDecimal are counted in 1/PreciseScale.
PreciseScale == Pow10(3)

RoundingModes == {"NearestEven", "NearestAway", "TowardZero", "TowardPositive",
                  "TowardNegative"}

Precisions == 0..2

\* Values with exact midpoints at every precision, of both signs.
PreciseValues == {-2500, -1500, -135, -125, -124, -5, 0, 5, 115, 124, 125, 126, 135,
                  1500, 2500}

\* round_to_precision of the rational n/d (d > 0): scaled = value * 10^precision,
\* rounded by the arm of the mode, divided by the scale again.  Both nearest
\* modes call Decimal::round(), which rounds midpoints to even.
round_ratio_to_precision(n, d, precision, mode) ==
    LET scale == Pow10(precision)
        scaled == n * scale
        rounded ==
            CASE mode = "NearestEven" -> RoundHalfEven(scaled, d)
              [] mode = "NearestAway" -> RoundHalfEven(scaled, d)
              [] mode = "TowardZero" ->
                    IF scaled >= 0 THEN scaled \div d ELSE -((-scaled) \div d)
              [] mode = "TowardPositive" -> -((-scaled) \div d)
              [] mode = "TowardNegative" -> scaled \div d
    IN  rounded * (PreciseScale \div scale)

round_to_precision(value, precision, mode) ==
    round_ratio_to_precision(value, PreciseScale, precision, mode)

\* PreciseDecimal::new
PreciseDecimal_new(value, precision, rounding_mode) ==
    [value |-> round_to_precision(value, precision, rounding_mode),
     precision |-> precision,
     rounding_mode |-> rounding_mode]

\* impl Div for PreciseDecimal: None where the code panics on a zero divisor.
PreciseDecimal_div(self, rhs) ==
    IF rhs.value = 0 THEN None
    ELSE Some([value |-> IF rhs.value > 0
                         THEN round_ratio_to_precision(self.value, rhs.value,
                                  MaxOf({self.precision, rhs.precision}),
                                  self.rounding_mode)
                         ELSE round_ratio_to_precision(-self.value, -rhs.value,
                                  MaxOf({self.precision, rhs.precision}),
                                  self.rounding_mode),
               precision |-> MaxOf({self.precision, rhs.precision}),
               rounding_mode |-> self.rounding_mode])

NewPrecise ==
    /\ panic = None
    /\ \E value \in PreciseValues, precision \in Precisions, mode \in RoundingModes :
         /\ precise_call' = Some([op |-> "new", value |-> value, precision |-> precision,
                                  rounding_mode |-> mode])
         /\ precise' = Some(PreciseDecimal_new(value, precision, mode))
    /\ UNCHANGED <<fp_validated, wasm_signal, strategy_signal>>
    /\ UNCHANGED generator_vars
    /\ UNCHANGED registry_vars
    /\ UNCHANGED job_vars

\* self / rhs on the PreciseDecimal built last, rhs built from a whole number.
DividePrecise ==
    /\ panic = None
    /\ IsSome(precise)
    /\ \E units \in {-3, 0, 2, 8} :
         \E rhs \in { PreciseDecimal_new(units * PreciseScale, 0, "NearestEven") } :
         \E quotient \in { PreciseDecimal_div(Unwrap(precise), rhs) } :
            /\ precise_call' = Some([op |-> "div", self |-> Unwrap(precise), rhs |-> rhs])
            /\ IF quotient = None
               THEN /\ panic' = Some("Division by zero")
                    /\ UNCHANGED precise
               ELSE /\ precise' = quotient
                    /\ UNCHANGED panic
    /\ UNCHANGED <<active_positions, trade_records, rejected_trades, current_equity,
                   peak_equity, max_drawdown, intrabar_policy, slippage_mode, rules,
                   bar, signals, entry_log, result>>
    /\ UNCHANGED <<fp_validated, wasm_signal, strategy_signal>>
    /\ UNCHANGED registry_vars
    /\ UNCHANGED job_vars

InitPrecise == NewGenerator({<<"ExactTrades", "None", FineRules>>})
               /\ NewRegistry({FALSE}) /\ NoJob

NextPrecise == NewPrecise \/ DividePrecise

SpecPrecise == InitPrecise /\ [][NextPrecise]_vars

\* ----------------------------------------------------------------- wasm.rs
\* An f64 of the ABI: a finite whole number, a NaN or an infinity.
Finite(v) == [kind |-> "finite", v |-> v]
NaN == [kind |-> "nan"]
Infinity == [kind |-> "inf"]

\* Decimal::from_f64: None for a NaN or an infinity, the value otherwise
\* (whole numbers of this size are exact in f64 and in Decimal).
from_f64(x) == IF x.kind = "finite" THEN Some(x.v) ELSE None

unwrap_or(option, default) == IF option = None THEN default ELSE Unwrap(option)

\* x > 0.0 in f64: false for a NaN, true for the positive infinity.
GreaterThanZero(x) == x.kind = "inf" \/ (x.kind = "finite" /\ x.v > 0)

\* The WasmSignal values a strategy may return.
WasmSignals ==
    [side : {0, 1, 7},
     size : {Finite(0), Finite(1000), NaN},
     entry_price : {Finite(0), Finite(50000)},
     take_profit : {Finite(0), Finite(53000), Infinity},
     stop_loss : {Finite(0), Finite(48000), Finite(-1)},
     time_to_live : {0, TimeStep}]

\* impl From<WasmSignal> for StrategySignal
StrategySignal_from(signal) ==
    [side |-> IF signal.side = 0 THEN "Buy" ELSE "Sell",
     size |-> unwrap_or(from_f64(signal.size), 0),
     entry_price |-> IF GreaterThanZero(signal.entry_price)
                     THEN Some(unwrap_or(from_f64(signal.entry_price), 0))
                     ELSE None,
     take_profit |-> IF GreaterThanZero(signal.take_profit)
                     THEN Some(unwrap_or(from_f64(signal.take_profit), 0))
                     ELSE None,
     stop_loss |-> IF GreaterThanZero(signal.stop_loss)
                   THEN Some(unwrap_or(from_f64(signal.stop_loss), 0))
                   ELSE None,
     time_to_live |-> IF signal.time_to_live > 0
                      THEN Some(signal.time_to_live)
                      ELSE None]

\* A strategy returns a WasmSignal and the engine converts it.
ConvertSignal ==
    /\ \E signal \in WasmSignals :
         /\ wasm_signal' = Some(signal)
         /\ strategy_signal' = Some(StrategySignal_from(signal))
    /\ UNCHANGED <<fp_validated, precise, precise_call>>
    /\ UNCHANGED generator_vars
    /\ UNCHANGED registry_vars
    /\ UNCHANGED job_vars

InitWasm == NewGenerator({<<"ExactTrades", "None", FineRules>>})
            /\ NewRegistry({FALSE}) /\ NoJob

NextWasm == ConvertSignal

SpecWasm == InitWasm /\ [][NextWasm]_vars

\* BacktestEngine::execute_job on a job, while the simulator holds fewer than
\* MaxHistory equity points.
ExecuteJob ==
    /\ panic = None
    /\ active_positions = <<>>
    /\ Len(equity_history) < MaxHistory
    /\ \E j \in Jobs :
         \E trade_table \in { generate_result(trade_records, rejected_trades,
                                              max_drawdown) } :
         \E done \in { execute_job([cache |-> cache, bar |-> bar,
                                    equity_history |-> equity_history],
                                   enable_simd, j, trade_table) } :
           /\ job' = Some(j)
           /\ job_returned' = Some(done.returned)
           /\ cache' = done.st.cache
           /\ bar' = done.st.bar
           /\ equity_history' = done.st.equity_history
    /\ signals' = <<>>
    /\ UNCHANGED <<enable_simd, calc_call, calc_returned>>
    /\ UNCHANGED utility_vars
    /\ UNCHANGED <<active_positions, trade_records, rejected_trades, current_equity,
                   peak_equity, max_drawdown, intrabar_policy, slippage_mode, rules,
                   entry_log, result, panic>>

InitJob == NewGenerator({<<"ExactTrades", "None", FineRules>>})
           /\ NewRegistry({TRUE, FALSE}) /\ NoJob

NextJob == ExecuteJob

SpecJob == InitJob /\ [][NextJob]_vars

InitWide == NewGenerator(WideConfigs) /\ NewRegistry({TRUE}) /\ NoJob

ProcessWideBar == FeedBar(AllWideBars, WideSignalLists)

NextWide == ProcessWideBar

SpecWide == InitWide /\ [][NextWide]_vars

\* ---------------------------------------------------------------- observations
\* What a process_bar step appended to the ledgers and to the entry trace.
Appended(old, new) == SubSeq(new, Len(old) + 1, Len(new))
NewRecords == Appended(trade_records, trade_records')
NewRejected == Appended(rejected_trades, rejected_trades')
NewEntries == Appended(entry_log, entry_log')

\* The symbol has a position before / after the step.
OpenBefore(sym) == \E k \in DOMAIN active_positions : active_positions[k].symbol = sym
OpenAfter(sym) == \E k \in DOMAIN active_positions' : active_positions'[k].symbol = sym

CountIn(seq, P(_)) == Cardinality({i \in DOMAIN seq : P(seq[i])})

\* The signals of the list that are for the symbol, in order.
SignalsFor(sigs, sym) == SelectSeq(sigs, LAMBDA sg : sg.symbol = sym)

\* The bar touches the level: a long's take profit and a short's stop loss
\* from below (high >= level), a long's stop loss and a short's take profit
\* from above (low <= level).
TouchesTp(b, p) ==
    /\ IsSome(p.take_profit)
    /\ \/ p.trade_type = "Long" /\ b.high >= Unwrap(p.take_profit)
       \/ p.trade_type = "Short" /\ b.low <= Unwrap(p.take_profit)
TouchesSl(b, p) ==
    /\ IsSome(p.stop_loss)
    /\ \/ p.trade_type = "Long" /\ b.low <= Unwrap(p.stop_loss)
       \/ p.trade_type = "Short" /\ b.high >= Unwrap(p.stop_loss)
TtlExpired(b, p) ==
    IsSome(p.time_to_live) /\ b.timestamp >= p.entry_time + Unwrap(p.time_to_live)
ExitConditionMet(b, p) == TouchesTp(b, p) \/ TouchesSl(b, p) \/ TtlExpired(b, p)

\* The quantity the bar's close gives after quantization to the lot size, and
\* whether its notional at the close passes the minimum-notional filter.
QuantizedQty(b) ==
    RoundHalfEven(default_size_usd * QtyScale, b.close * rules.lot_size) * rules.lot_size
NotionalPasses(b) == QuantizedQty(b) * b.close >= rules.min_notional

\* ---------------------------------------------------------------- claims

\* C1: after any sequence of process_bar calls the generator holds at most
\* one ActivePosition per symbol.
C1_OnePositionPerSymbol ==
    \A k1, k2 \in DOMAIN active_positions :
        active_positions[k1].symbol = active_positions[k2].symbol => k1 = k2

\* C1 witness: a position opened on an earlier bar is still open after a bar
\* that carried another signal for its symbol.
C1_Witness ==
    /\ IsSome(bar)
    /\ \E k \in DOMAIN active_positions :
         /\ active_positions[k].entry_time < Unwrap(bar).timestamp
         /\ \E i \in DOMAIN signals : signals[i].symbol = active_positions[k].symbol

\* C2: within one process_bar call the steps run in the order entries, exits,
\* equity: a position opened by this bar's signals has been through this
\* bar's exit evaluation (it is open afterwards only if the bar meets none of
\* its exit conditions, otherwise its record is in the ledger), and the
\* equity after the call includes the records closed by this call.
C2_StepOrder ==
    [][ /\ \A i \in DOMAIN NewEntries :
             LET sym == NewEntries[i][1]
                 now == Unwrap(bar').timestamp
             IN  IF OpenAfter(sym)
                 THEN \A k \in DOMAIN active_positions' :
                        active_positions'[k].symbol = sym =>
                          /\ active_positions'[k].entry_time = now
                          /\ ~ExitConditionMet(Unwrap(bar'), active_positions'[k])
                 ELSE \E j \in DOMAIN NewRecords :
                        /\ NewRecords[j].symbol = sym
                        /\ NewRecords[j].entry_time_utc = timestamp_to_iso_utc(now)
                        /\ NewRecords[j].exit_time_utc = timestamp_to_iso_utc(now)
        /\ current_equity' = starting_equity * MoneyScale + SumPnl(trade_records')
      ]_vars

\* C2 witness: the last bar opened a position and closed it again, and the
\* equity has moved with its record.
C2_Witness ==
    /\ IsSome(bar)
    /\ \E i \in DOMAIN trade_records :
         /\ trade_records[i].entry_time_utc = timestamp_to_iso_utc(Unwrap(bar).timestamp)
         /\ trade_records[i].exit_time_utc = timestamp_to_iso_utc(Unwrap(bar).timestamp)
         /\ trade_records[i].pnl_usd # 0
    /\ current_equity # starting_equity * MoneyScale

\* C3: an entry signal whose symbol already has an open position changes
\* nothing (no entry, no rejection, the position is not replaced or
\* modified); two Buy signals for one flat symbol on one bar that passes the
\* notional filter give exactly one position, that of the first signal, and
\* no rejection.
C3_OpenSymbolIgnoresSignals ==
    [][ \A sym \in Symbols :
          /\ OpenBefore(sym) =>
               /\ CountIn(NewEntries, LAMBDA e : e[1] = sym) = 0
               /\ CountIn(NewRejected, LAMBDA r : r.symbol = sym) = 0
               /\ \A k \in DOMAIN active_positions' :
                    active_positions'[k].symbol = sym =>
                      /\ k \in DOMAIN active_positions
                      /\ active_positions'[k] = active_positions[k]
          /\ ( /\ ~OpenBefore(sym)
               /\ CountIn(SignalsFor(signals', sym), LAMBDA sg : sg.side = "Buy") >= 2
               /\ SignalsFor(signals', sym)[1].side = "Buy"
               /\ NotionalPasses(Unwrap(bar')) ) =>
               /\ CountIn(NewEntries, LAMBDA e : e[1] = sym) = 1
               /\ CountIn(NewRejected, LAMBDA r : r.symbol = sym) = 0
               /\ CountIn(NewRecords, LAMBDA r : r.symbol = sym)
                    + Cardinality({k \in DOMAIN active_positions' :
                                     active_positions'[k].symbol = sym}) = 1
               /\ \A k \in DOMAIN active_positions' :
                    active_positions'[k].symbol = sym =>
                      LET first == SignalsFor(signals', sym)[1]
                      IN  /\ active_positions'[k].trade_type = "Long"
                          /\ active_positions'[k].take_profit = first.take_profit
                          /\ active_positions'[k].stop_loss = first.stop_loss
                          /\ active_positions'[k].time_to_live = first.time_to_live
                          /\ active_positions'[k].entry_time = Unwrap(bar').timestamp
      ]_vars

\* C3 witness: the last bar carried two Buy signals for a symbol, the
\* position it opened is open, carries the first signal's bracket, and
\* nothing was rejected.
C3_Witness ==
    /\ IsSome(bar)
    /\ Len(signals) = 2
    /\ signals[1].symbol = signals[2].symbol
    /\ signals[1].take_profit # signals[2].take_profit
    /\ rejected_trades = <<>>
    /\ \E k \in DOMAIN active_positions :
         /\ active_positions[k].symbol = signals[1].symbol
         /\ active_positions[k].entry_time = Unwrap(bar).timestamp
         /\ active_positions[k].take_profit = signals[1].take_profit

\* Order of two formatted timestamps (same-length ISO strings compare as
\* day, then millisecond of the day).
IsoLeq(a, b) == a.day < b.day \/ (a.day = b.day /\ a.ms_of_day <= b.ms_of_day)

\* C4: every TradeRecord stems from exactly one accepted entry on its symbol,
\* no two records stem from the same entry, records + open positions =
\* accepted entries, and a record's exit time is >= its entry time.
C4_RecordsMatchEntries ==
    /\ Len(trade_records) + Cardinality(DOMAIN active_positions) = Len(entry_log)
    /\ \A i \in DOMAIN trade_records :
         /\ Cardinality({e \in DOMAIN entry_log :
               /\ entry_log[e][1] = trade_records[i].symbol
               /\ timestamp_to_iso_utc(entry_log[e][2]) = trade_records[i].entry_time_utc}) = 1
         /\ IsoLeq(trade_records[i].entry_time_utc, trade_records[i].exit_time_utc)
    /\ \A i, j \in DOMAIN trade_records :
         ( /\ trade_records[i].symbol = trade_records[j].symbol
           /\ trade_records[i].entry_time_utc = trade_records[j].entry_time_utc ) => i = j
    /\ \A k \in DOMAIN active_positions :
         \E e \in DOMAIN entry_log :
            entry_log[e] = <<active_positions[k].symbol, active_positions[k].entry_time>>

\* C4 witness: two positions of one symbol have been closed one after the
\* other and a third position is open.
C4_Witness ==
    /\ Len(trade_records) >= 2
    /\ trade_records[1].symbol = trade_records[2].symbol
    /\ trade_records[1].exit_time_utc # trade_records[2].exit_time_utc
    /\ active_positions # <<>>

\* The position of the symbol at this step's exit evaluation, as far as the
\* exit rules read it: the position open before the step or, for a symbol
\* that was flat, the one the step's first signal for it opened.
EvaluatedPositions ==
    { active_positions[k] : k \in DOMAIN active_positions }
    \cup { [symbol |-> NewEntries[i][1],
            trade_type |-> IF SignalsFor(signals', NewEntries[i][1])[1].side = "Buy"
                           THEN "Long" ELSE "Short",
            entry_time |-> NewEntries[i][2],
            take_profit |-> SignalsFor(signals', NewEntries[i][1])[1].take_profit,
            stop_loss |-> SignalsFor(signals', NewEntries[i][1])[1].stop_loss,
            time_to_live |-> SignalsFor(signals', NewEntries[i][1])[1].time_to_live]
          : i \in DOMAIN NewEntries }

\* The step closed the position with this exit.
ClosedWith(p, price, reason, hit) ==
    /\ ~OpenAfter(p.symbol)
    /\ \E j \in DOMAIN NewRecords :
         /\ NewRecords[j].symbol = p.symbol
         /\ NewRecords[j].entry_time_utc = timestamp_to_iso_utc(p.entry_time)
         /\ NewRecords[j].exit_time_utc = timestamp_to_iso_utc(Unwrap(bar').timestamp)
         /\ NewRecords[j].exit_price = price
         /\ NewRecords[j].exit_reason = reason
         /\ NewRecords[j].hit_tp_sl = hit

\* C5: under LinearInterpolation a bar that touches both the take profit and
\* the stop loss of a position closes it at the stop loss when the bar's
\* open is closer to the stop loss than to the take profit, and at the take
\* profit otherwise; a Timeout is recorded only when neither is touched.
C5_StraddleByDistanceFromOpen ==
    [][ intrabar_policy = "LinearInterpolation" =>
          \A p \in EvaluatedPositions :
            LET b == Unwrap(bar')
            IN  /\ (TouchesTp(b, p) /\ TouchesSl(b, p)) =>
                     IF Abs(b.open - Unwrap(p.stop_loss)) < Abs(b.open - Unwrap(p.take_profit))
                     THEN ClosedWith(p, Unwrap(p.stop_loss), "StopLoss", "StopLoss")
                     ELSE ClosedWith(p, Unwrap(p.take_profit), "TakeProfit", "TakeProfit")
                /\ ClosedWith(p, b.close, "Timeout", "None") =>
                     ~TouchesTp(b, p) /\ ~TouchesSl(b, p)
      ]_vars

\* C6: NotionalMin is triggered iff quantized quantity x the position's entry
\* price < min_notional: every rejection has a notional below the minimum
\* and every open position has quantity x entry_price >= min_notional.
C6_OpenPositionsMeetMinNotional ==
    /\ \A i \in DOMAIN rejected_trades : rejected_trades[i].notional < rules.min_notional
    /\ \A k \in DOMAIN active_positions :
         active_positions[k].quantity * active_positions[k].entry_price >= rules.min_notional

\* C7: a signal for a flat symbol that fails the minimum-notional filter
\* appends exactly one RejectedTrade (the bar's timestamp, the signal's
\* symbol and side, the quantized notional, below the minimum), opens no
\* position and emits no record; the loop goes on with the remaining signals
\* and the exit and equity steps still run.
C7_RejectionRecordedLoopContinues ==
    [][ LET b == Unwrap(bar')
            flat == SelectSeq(signals', LAMBDA sg : ~OpenBefore(sg.symbol))
        IN  ~NotionalPasses(b) =>
              /\ NewRejected =
                   [i \in DOMAIN flat |->
                      [timestamp |-> b.timestamp, symbol |-> flat[i].symbol,
                       side |-> flat[i].side, reason |-> "Rejected - NotionalMin",
                       notional |-> QuantizedQty(b) * b.close]]
              /\ \A i \in DOMAIN NewRejected : NewRejected[i].notional < rules.min_notional
              /\ NewEntries = <<>>
              /\ \A sym \in Symbols : OpenAfter(sym) => OpenBefore(sym)
              /\ \A j \in DOMAIN NewRecords : OpenBefore(NewRecords[j].symbol)
              /\ \A k \in DOMAIN active_positions :
                   ExitConditionMet(b, active_positions[k]) =>
                     /\ ~OpenAfter(active_positions[k].symbol)
                     /\ \E j \in DOMAIN NewRecords :
                          NewRecords[j].symbol = active_positions[k].symbol
              /\ current_equity' = starting_equity * MoneyScale + SumPnl(trade_records')
      ]_vars

\* C7 witness: the last bar carried two signals for flat symbols, both were
\* rejected, and nothing is open.
C7_Witness ==
    /\ IsSome(bar)
    /\ Len(signals) = 2
    /\ Len(rejected_trades) >= 2
    /\ rejected_trades[Len(rejected_trades)].timestamp = Unwrap(bar).timestamp
    /\ rejected_trades[Len(rejected_trades) - 1].timestamp = Unwrap(bar).timestamp
    /\ rejected_trades[Len(rejected_trades)].symbol = signals[2].symbol
    /\ active_positions = <<>>

\* C8: a position with ttl_ms whose take profit and stop loss the bar does
\* not touch is closed on that bar iff bar.timestamp >= entry_time + ttl_ms;
\* the record then has exit price = bar.close, reason Timeout, hit None.
C8_TimeoutInclusive ==
    [][ \A p \in EvaluatedPositions :
          LET b == Unwrap(bar')
          IN  (IsSome(p.time_to_live) /\ ~TouchesTp(b, p) /\ ~TouchesSl(b, p)) =>
                IF b.timestamp >= p.entry_time + Unwrap(p.time_to_live)
                THEN ClosedWith(p, b.close, "Timeout", "None")
                ELSE /\ OpenAfter(p.symbol)
                     /\ CountIn(NewRecords, LAMBDA r : r.symbol = p.symbol) = 0
      ]_vars

\* C8 witness: a position was closed by Timeout on the bar whose timestamp
\* is exactly entry_time + ttl_ms (one TimeStep after the entry: only a ttl
\* of one TimeStep has expired by then).
C8_Witness ==
    \E i \in DOMAIN trade_records :
      /\ trade_records[i].exit_reason = "Timeout"
      /\ trade_records[i].hit_tp_sl = "None"
      /\ \E t \in 1..MaxTime :
           /\ trade_records[i].entry_time_utc = timestamp_to_iso_utc(t * TimeStep)
           /\ trade_records[i].exit_time_utc = timestamp_to_iso_utc(t * TimeStep + TimeStep)

\* The previous call (bar, signals) closed a position of the symbol that was
\* open when that call started, and carried an entry signal for the symbol.
ClosedUnderSignal(sym) ==
    /\ IsSome(bar)
    /\ SignalsFor(signals, sym) # <<>>
    /\ ~OpenBefore(sym)
    /\ \E i \in DOMAIN trade_records :
         /\ trade_records[i].symbol = sym
         /\ trade_records[i].exit_time_utc = timestamp_to_iso_utc(Unwrap(bar).timestamp)
         /\ trade_records[i].entry_time_utc # timestamp_to_iso_utc(Unwrap(bar).timestamp)

\* C9: an entry signal delivered with the bar that closes the symbol's
\* position opens nothing on that bar and is admitted for the next bar: the
\* next process_bar call examines it (it enters, or is rejected by the
\* notional filter).
C9_SignalCarriedToNextBar ==
    [][ \A sym \in Symbols :
          /\ (OpenBefore(sym) /\ SignalsFor(signals', sym) # <<>>) =>
               CountIn(NewEntries, LAMBDA e : e[1] = sym) = 0
          /\ ClosedUnderSignal(sym) =>
               \/ CountIn(NewEntries, LAMBDA e : e[1] = sym) >= 1
               \/ CountIn(NewRejected, LAMBDA r : r.symbol = sym) >= 1
      ]_vars

\* Fee of one execution: quantity x price x taker_fee, rounded half-even to
\* precision_price decimals.
TakerFee(qty, price) ==
    RoundHalfEven(qty * price * rules.taker_fee * Pow10(rules.precision_price),
                  MoneyScale * FeeScale)
        * (MoneyScale \div Pow10(rules.precision_price))

\* C10: every TradeRecord has fees_usd = entry fee + exit fee (same rate,
\* same precision), pnl_usd = (exit - entry) x qty - fees for a Long and
\* (entry - exit) x qty - fees for a Short, and pnl_pct = pnl_usd / size_usd.
C10_PnlIdentity ==
    \A i \in DOMAIN trade_records :
      LET r == trade_records[i]
      IN  /\ r.fees_usd = TakerFee(r.qty, r.entry_price) + TakerFee(r.qty, r.exit_price)
          /\ r.trade_type = "Long" =>
               r.pnl_usd = (r.exit_price - r.entry_price) * r.qty - r.fees_usd
          /\ r.trade_type = "Short" =>
               r.pnl_usd = (r.entry_price - r.exit_price) * r.qty - r.fees_usd
          /\ r.pnl_pct * (r.size_usd \div MoneyScale)
               = r.pnl_usd * (Pow10(DivDigits) \div MoneyScale)

\* C10 witness: the ledger holds a Long and a Short record with fees, one
\* closed at a profit and one at a loss.
C10_Witness ==
    \E i, j \in DOMAIN trade_records :
      /\ trade_records[i].trade_type = "Long"
      /\ trade_records[j].trade_type = "Short"
      /\ trade_records[i].fees_usd > 0
      /\ trade_records[j].fees_usd > 0
      /\ trade_records[i].pnl_usd > 0
      /\ trade_records[j].pnl_usd < 0

\* C11: every TradeRecord of a Long closed above its entry price, and of a
\* Short closed below its entry price, has pnl_usd + fees_usd > 0, for all
\* admissible ExchangeRules (lot_size > 0, min_notional >= 0).
C11_GrossPnlSign ==
    \A i \in DOMAIN trade_records :
      LET r == trade_records[i]
      IN  /\ (r.trade_type = "Long" /\ r.exit_price > r.entry_price) =>
               r.pnl_usd + r.fees_usd > 0
          /\ (r.trade_type = "Short" /\ r.exit_price < r.entry_price) =>
               r.pnl_usd + r.fees_usd > 0

\* Sum of pnl_usd over a ledger, from the last record to the first.
RECURSIVE PnlTotal(_, _)
PnlTotal(records, n) == IF n = 0 THEN 0 ELSE records[n].pnl_usd + PnlTotal(records, n - 1)

\* C12: after every process_bar call current equity = starting equity
\* (10000) + the sum of pnl_usd over all TradeRecords emitted so far.
C12_EquityIsStartPlusPnl ==
    current_equity - starting_equity * MoneyScale
        = PnlTotal(trade_records, Len(trade_records))

\* C12 witness: two records with non-zero PnL are in the ledger, the peak
\* has been above the starting equity, and the equity is not the starting one.
C12_Witness ==
    /\ Len(trade_records) >= 2
    /\ trade_records[1].pnl_usd # 0
    /\ trade_records[2].pnl_usd # 0
    /\ peak_equity > starting_equity * MoneyScale
    /\ current_equity # starting_equity * MoneyScale

\* C14: from one process_bar call to the next max_drawdown and peak_equity
\* never decrease; peak_equity is always >= current equity and >= the
\* starting equity (the drawdown divisor is never zero); max_drawdown is
\* always >= the current bar's drawdown (peak - equity) / peak.
C14_DrawdownMonotone ==
    /\ [](/\ peak_equity >= current_equity
          /\ peak_equity >= starting_equity * MoneyScale
          /\ peak_equity > 0
          /\ max_drawdown >= DecimalDiv(peak_equity - current_equity, peak_equity))
    /\ [][ /\ max_drawdown' >= max_drawdown
           /\ peak_equity' >= peak_equity ]_vars

\* C14 witness: the equity has fallen below a peak above the starting
\* equity and has recovered in part: the current drawdown is positive and
\* below max_drawdown.
C14_Witness ==
    /\ peak_equity > starting_equity * MoneyScale
    /\ current_equity < peak_equity
    /\ DecimalDiv(peak_equity - current_equity, peak_equity) > 0
    /\ DecimalDiv(peak_equity - current_equity, peak_equity) < max_drawdown

\* C13: in every reachable state max_drawdown lies in [0, 1], whatever
\* losses the closed trades have accumulated.
C13_DrawdownInUnitInterval ==
    /\ max_drawdown >= 0
    /\ max_drawdown <= Pow10(DivDigits)

\* The trade-record ledger a second run of the step on the same inputs (the
\* same state before, the same bar and signals) ends with when its HashMap
\* iterates in the order `order`.
RerunRecords(order) ==
    process_exits(
        process_entry_signals(
            [positions |-> active_positions, rejected |-> rejected_trades,
             log |-> entry_log],
            Unwrap(bar'), signals', intrabar_policy, slippage_mode, rules).positions,
        trade_records, Unwrap(bar'), order, rules).records

\* The keys of the map at the exit step of the call.
KeysAtExit ==
    DOMAIN process_entry_signals(
               [positions |-> active_positions, rejected |-> rejected_trades,
                log |-> entry_log],
               Unwrap(bar'), signals', intrabar_policy, slippage_mode, rules).positions

\* C15: running the kernel twice on identical inputs yields identical
\* outputs, including the order of the TradeRecords when positions of
\* several symbols are closed on the same bar: whatever order the second
\* run's map iterates in, its ledger is this run's ledger.
C15_RerunGivesSameRecords ==
    [][ \A order \in IterationOrders(KeysAtExit) : RerunRecords(order) = trade_records' ]_vars

IsPrefix(a, b) == Len(a) <= Len(b) /\ SubSeq(b, 1, Len(a)) = a

\* C16: the trade-record and rejected-trade ledgers are append-only (before
\* every call they are prefixes of what they are after it); generate_result
\* leaves the generator unchanged and a second call right after it returns
\* an equal result; a later process_bar does not change a result already
\* returned.
C16_AppendOnlySnapshot ==
    [][ /\ IsPrefix(trade_records, trade_records')
        /\ IsPrefix(rejected_trades, rejected_trades')
        /\ bar' = bar =>
              /\ <<active_positions, trade_records, rejected_trades, current_equity,
                    peak_equity, max_drawdown>>'
                   = <<active_positions, trade_records, rejected_trades, current_equity,
                       peak_equity, max_drawdown>>
              /\ result' = generate_result(trade_records', rejected_trades', max_drawdown')
        /\ bar' # bar => result' = result
      ]_vars

\* C16 witness: a result with a trade was returned, and bars processed
\* since then have appended to the ledger.
C16_Witness ==
    /\ IsSome(result)
    /\ Len(Unwrap(result).trades) >= 1
    /\ Len(trade_records) > Len(Unwrap(result).trades)
    /\ IsPrefix(Unwrap(result).trades, trade_records)

\* C17: the summary has total_trades = |T|, wins = the number of records
\* with pnl_usd > 0, losses = total_trades - wins (a record with pnl_usd = 0
\* is a loss), and win_rate = wins / total_trades x 100.
C17_SummaryCounts ==
    IsSome(result) =>
      LET T == Unwrap(result).trades
          s == Unwrap(result).summary
          positive == Cardinality({i \in DOMAIN T : T[i].pnl_usd > 0})
          others == Cardinality({i \in DOMAIN T : T[i].pnl_usd <= 0})
      IN  /\ s.total_trades = Len(T)
          /\ s.wins = positive
          /\ s.losses = others
          /\ s.wins + s.losses = s.total_trades
          /\ Len(T) = 0 => s.win_rate = 0
          /\ Len(T) > 0 =>
                Abs(s.win_rate * Len(T) - positive * 100 * Pow10(DivDigits)) <= 50 * Len(T)

\* C17 witness: a returned result has a winner and a record with pnl_usd = 0.
C17_Witness ==
    /\ IsSome(result)
    /\ \E i, j \in DOMAIN Unwrap(result).trades :
         /\ Unwrap(result).trades[i].pnl_usd > 0
         /\ Unwrap(result).trades[j].pnl_usd = 0
    /\ Unwrap(result).summary.wins >= 1
    /\ Unwrap(result).summary.losses >= 1

\* The Unix milliseconds a formatted timestamp stands for.
IsoToMs(iso) == iso.day * MsPerDay + iso.ms_of_day

RECURSIVE HeldMs(_, _)
HeldMs(T, n) ==
    IF n = 0 THEN 0
    ELSE IsoToMs(T[n].exit_time_utc) - IsoToMs(T[n].entry_time_utc) + HeldMs(T, n - 1)

\* C18: avg_holding_time_hours = the mean over all trade records of
\* (exit time in ms - entry time in ms), divided by 3600000.
C18_AvgHoldingTime ==
    (IsSome(result) /\ Len(Unwrap(result).trades) > 0) =>
      LET T == Unwrap(result).trades
      IN  Unwrap(result).summary.avg_holding_time_hours
            = DecimalDivTo(HeldMs(T, Len(T)), Len(T) * MsPerHour, DivDigits)

\* C19: the summary computation never divides by zero: a result of no
\* trades has an all-zero summary; with trades but gross_loss = 0
\* profit_factor is 0; avg_win is 0 without winners and avg_loss is 0
\* without non-winners.
C19_NoDivisionByZero ==
    /\ panic = None
    /\ IsSome(result) =>
         LET T == Unwrap(result).trades
             s == Unwrap(result).summary
         IN  /\ T = <<>> =>
                   s = [total_trades |-> 0, wins |-> 0, losses |-> 0, win_rate |-> 0,
                        net_pnl_usd |-> 0, avg_win_usd |-> 0, avg_loss_usd |-> 0,
                        expectancy |-> 0, max_drawdown |-> 0, profit_factor |-> 0,
                        avg_holding_time_hours |-> 0]
             /\ (\A i \in DOMAIN T : T[i].pnl_usd >= 0) => s.profit_factor = 0
             /\ (\A i \in DOMAIN T : T[i].pnl_usd <= 0) => s.avg_win_usd = 0
             /\ (\A i \in DOMAIN T : T[i].pnl_usd > 0) => s.avg_loss_usd = 0

\* C19 witness: a result whose trades are all winners has been returned:
\* profit_factor and avg_loss are 0, avg_win is not.
C19_Witness ==
    /\ IsSome(result)
    /\ Unwrap(result).trades # <<>>
    /\ \A i \in DOMAIN Unwrap(result).trades : Unwrap(result).trades[i].pnl_usd > 0
    /\ Unwrap(result).summary.profit_factor = 0
    /\ Unwrap(result).summary.avg_loss_usd = 0
    /\ Unwrap(result).summary.avg_win_usd > 0

\* What a registry that has computed nothing yet returns for the call.
FreshComputation(call) ==
    calculate(<<>>, enable_simd, call.indicator_name, call.market_data).returned

\* C20: every IndicatorRegistry::calculate call returns exactly what a fresh
\* computation over the bars passed to that call returns; a call for a
\* (name, symbol) pair computed earlier on different bars does not return
\* the earlier result.
C20_CacheHitEqualsFresh ==
    IsSome(calc_call) => Unwrap(calc_returned) = FreshComputation(Unwrap(calc_call))

\* C21: a calculate call whose indicator name is outside the supported set
\* returns an error and leaves the cache as it was, whatever the market data
\* (the empty bar sequence included) and whatever the cache holds.
C21_UnknownIndicatorIsError ==
    [][ (/\ IsSome(calc_call')
         /\ Unwrap(calc_call').indicator_name \notin SupportedIndicators)
        => (/\ ~Unwrap(calc_returned').ok
            /\ cache' = cache) ]_vars

\* The period IndicatorRegistry::calculate passes for each indicator.
PeriodOf(indicator_name) ==
    IF indicator_name \in {"rsi", "atr"} THEN short_period ELSE long_period

NonNegative(n) == IF n < 0 THEN 0 ELSE n

\* The number of values the indicator is to give for N bars.
ExpectedLength(indicator_name, N) ==
    LET p == PeriodOf(indicator_name)
    IN  CASE indicator_name \in {"sma", "ema", "hh", "ll"} -> NonNegative(N - p + 1)
          [] indicator_name = "rsi" -> NonNegative(N - p - 1)
          [] indicator_name = "atr" -> NonNegative(N - p)
          [] indicator_name = "vwap" -> N

\* C22: for N bars and period p the computed sequence has N-p+1 values for
\* sma, ema, hh and ll (the k-th stamped with the timestamp of bar k+p-1),
\* N-p-1 for rsi, N-p for atr and N for vwap; when N is too small the call
\* succeeds with the empty sequence.
C22_OutputLengths ==
    IsSome(calc_call) =>
        LET name == Unwrap(calc_call).indicator_name
            bars == Unwrap(calc_call).market_data.bars
            returned == Unwrap(calc_returned)
            p == PeriodOf(name)
        IN  /\ returned.ok
            /\ Len(returned.values) = ExpectedLength(name, Len(bars))
            /\ name \in {"sma", "ema", "hh", "ll"} =>
                 \A k \in DOMAIN returned.values :
                     returned.values[k].timestamp = bars[k + p - 1].timestamp

\* The full series gave SeriesLen - short_period - 1 values of rsi.
C22_Witness ==
    /\ IsSome(calc_call)
    /\ Unwrap(calc_call).indicator_name = "rsi"
    /\ Len(Unwrap(calc_call).market_data.bars) = SeriesLen
    /\ Len(Unwrap(calc_returned).values) = SeriesLen - short_period - 1
    /\ Len(Unwrap(calc_returned).values) > 0

\* The bar invariants: the timestamp is strictly greater than the one of the
\* bar processed before, low is not above high, the volume is not negative.
BarInvariants(previous, b) ==
    /\ IsSome(previous) => b.timestamp > Unwrap(previous).timestamp
    /\ b.low <= b.high
    /\ b.volume >= 0

\* C23: process_bar never accepts a bar that violates the bar invariants: a
\* step that processes a bar (and changes the generator) is a step on a bar
\* that satisfies them with respect to the bar processed before.
C23_InvalidBarNeverAccepted ==
    [][ generator_vars' # generator_vars
        => (IsSome(bar') /\ BarInvariants(bar, Unwrap(bar'))) ]_vars

C25_NoOpenPositionPastExit ==
    /\ [](IsSome(bar) =>
            \A k \in DOMAIN active_positions :
                ~ExitConditionMet(Unwrap(bar), active_positions[k]))
    /\ [][ \A p \in EvaluatedPositions :
             ExitConditionMet(Unwrap(bar'), p) =>
               /\ ~OpenAfter(p.symbol)
               /\ \E j \in DOMAIN NewRecords :
                    /\ NewRecords[j].symbol = p.symbol
                    /\ NewRecords[j].entry_time_utc = timestamp_to_iso_utc(p.entry_time)
                    /\ NewRecords[j].exit_time_utc
                         = timestamp_to_iso_utc(Unwrap(bar').timestamp)
         ]_vars

\* C25 witness: the last bar closed positions of two symbols, one of them
\* opened on an earlier bar, and nothing is open.
C25_Witness ==
    /\ IsSome(bar)
    /\ active_positions = <<>>
    /\ \E i, j \in DOMAIN trade_records :
         /\ trade_records[i].symbol # trade_records[j].symbol
         /\ trade_records[i].exit_time_utc = timestamp_to_iso_utc(Unwrap(bar).timestamp)
         /\ trade_records[j].exit_time_utc = timestamp_to_iso_utc(Unwrap(bar).timestamp)
         /\ trade_records[i].entry_time_utc # trade_records[i].exit_time_utc

\* C26: the touch conditions are inclusive and depend on the side (Long:
\* high >= tp, low <= sl; Short: low <= tp, high >= sl).  A position of which
\* exactly one level is touched is closed at exactly that stored level with
\* (TakeProfit, TakeProfit) or (StopLoss, StopLoss), whatever the slippage
\* mode; a record closed by a level is a record of a position whose level of
\* that kind is present and touched.
C26_TouchInclusiveExitAtLevel ==
    [][ LET b == Unwrap(bar')
        IN  /\ \A p \in EvaluatedPositions :
                 /\ (TouchesTp(b, p) /\ ~TouchesSl(b, p)) =>
                      ClosedWith(p, Unwrap(p.take_profit), "TakeProfit", "TakeProfit")
                 /\ (TouchesSl(b, p) /\ ~TouchesTp(b, p)) =>
                      ClosedWith(p, Unwrap(p.stop_loss), "StopLoss", "StopLoss")
            /\ \A j \in DOMAIN NewRecords :
                 /\ NewRecords[j].exit_reason = "TakeProfit" =>
                      \E p \in EvaluatedPositions :
                          /\ p.symbol = NewRecords[j].symbol
                          /\ TouchesTp(b, p)
                          /\ NewRecords[j].exit_price = Unwrap(p.take_profit)
                 /\ NewRecords[j].exit_reason = "StopLoss" =>
                      \E p \in EvaluatedPositions :
                          /\ p.symbol = NewRecords[j].symbol
                          /\ TouchesSl(b, p)
                          /\ NewRecords[j].exit_price = Unwrap(p.stop_loss)
      ]_vars

\* C26 witness: under a slippage mode that moves entry prices, the last bar's
\* high was exactly the stop loss of a short, which was closed at that level,
\* and an earlier bar left it open.
C26_Witness ==
    /\ IsSome(bar)
    /\ slippage_mode # "None"
    /\ Unwrap(bar).high = BracketSl("Sell")
    /\ \E i \in DOMAIN trade_records :
         /\ trade_records[i].trade_type = "Short"
         /\ trade_records[i].exit_reason = "StopLoss"
         /\ trade_records[i].hit_tp_sl = "StopLoss"
         /\ trade_records[i].exit_price = BracketSl("Sell")
         /\ trade_records[i].entry_price # trade_records[i].exit_price
         /\ trade_records[i].exit_time_utc = timestamp_to_iso_utc(Unwrap(bar).timestamp)
         /\ trade_records[i].entry_time_utc # trade_records[i].exit_time_utc

\* The positions the step opened for the symbol, as [entry_price, quantity,
\* size_usd]: still open, or closed again by the same bar.
OpenedNow(sym) ==
    { [entry_price |-> active_positions'[k].entry_price,
       quantity |-> active_positions'[k].quantity,
       size_usd |-> active_positions'[k].size_usd] :
        k \in { k \in DOMAIN active_positions' :
                  /\ active_positions'[k].symbol = sym
                  /\ active_positions'[k].entry_time = Unwrap(bar').timestamp } }
    \cup
    { [entry_price |-> NewRecords[j].entry_price,
       quantity |-> NewRecords[j].qty,
       size_usd |-> NewRecords[j].size_usd] :
        j \in { j \in DOMAIN NewRecords :
                  /\ NewRecords[j].symbol = sym
                  /\ NewRecords[j].entry_time_utc
                       = timestamp_to_iso_utc(Unwrap(bar').timestamp) } }

\* The base price of an entry: under ExactTrades the signal's entry_price
\* when it carries one and the bar's close otherwise, under the other
\* policies the bar's open.
BasePrice(b, signal, policy) ==
    IF policy = "ExactTrades"
    THEN IF IsSome(signal.entry_price) THEN Unwrap(signal.entry_price) ELSE b.close
    ELSE b.open

\* C27: the entry price of every position opened is the base price of its
\* signal (ExactTrades: the signal's entry_price when carried, else
\* bar.close; OneSecondBars and LinearInterpolation: bar.open) after slippage
\* and tick quantization.
C27_EntryBasePrice ==
    [][ \A i \in DOMAIN NewEntries :
          LET sym == NewEntries[i][1]
              signal == SignalsFor(signals', sym)[1]
          IN  /\ OpenedNow(sym) # {}
              /\ \A o \in OpenedNow(sym) :
                   o.entry_price
                     = apply_slippage(BasePrice(Unwrap(bar'), signal, intrabar_policy),
                                      signal.side, slippage_mode, rules)
      ]_vars

\* The notional of a signal: its own size when it carries one, the default
\* otherwise.
NotionalOf(signal) == IF signal.size > 0 THEN signal.size ELSE default_size_usd

\* C28: every position opened is sized from its signal's own size when the
\* signal carries one and from the default of $1000 only otherwise: that
\* notional is the size_usd stored on the position and on its record, and
\* the notional its quantity is quantized from.
C28_SignalSizeIsNotional ==
    [][ \A i \in DOMAIN NewEntries :
          LET sym == NewEntries[i][1]
              signal == SignalsFor(signals', sym)[1]
          IN  /\ OpenedNow(sym) # {}
              /\ \A o \in OpenedNow(sym) :
                   /\ o.size_usd = NotionalOf(signal) * MoneyScale
                   /\ o.quantity
                        = apply_symbol_filters(<<NotionalOf(signal), Unwrap(bar').close>>,
                                               rules)
      ]_vars

\* C29: every open position has quantity = round(size_usd / entry_price /
\* lot_size) x lot_size with entry_price its stored execution price, under
\* every policy and slippage mode; its quantity is a whole number of lots and
\* its entry price a whole number of ticks.
C29_QuantityFromEntryPrice ==
    \A k \in DOMAIN active_positions :
        LET p == active_positions[k]
        IN  /\ p.quantity
                 = RoundHalfEven(p.size_usd, p.entry_price * rules.lot_size) * rules.lot_size
            /\ p.quantity % rules.lot_size = 0
            /\ p.entry_price % rules.tick_size = 0

\* C30: every open position has quantity > 0 and every TradeRecord has
\* qty > 0, for all admissible ExchangeRules (min_notional = 0 with a lot
\* larger than the raw quantity included).
C30_QuantityPositive ==
    /\ \A k \in DOMAIN active_positions : active_positions[k].quantity > 0
    /\ \A i \in DOMAIN trade_records : trade_records[i].qty > 0

\* The slippage rate of a mode, in 1/SlipScale.
SlippageRate(mode) ==
    CASE mode = "None" -> 0 [] mode = "TradeSweep" -> 1 [] mode = "SyntheticBook" -> 5

\* price is a multiple of the tick nearest to target / SlipScale.
NearestTick(price, target, tick) ==
    /\ price % tick = 0
    /\ 2 * Abs(price * SlipScale - target) <= tick * SlipScale

\* C31: the entry price of every position opened is the tick multiple
\* nearest to base x (1 + r) for a Buy and to base x (1 - r) for a Sell, with
\* r = 0, 1e-4, 5e-4 for None, TradeSweep, SyntheticBook; the base being on
\* the tick grid, it is not below the base for a Buy, not above it for a
\* Sell, and equal to it under None.
C31_AdverseSlippage ==
    [][ \A i \in DOMAIN NewEntries :
          LET sym == NewEntries[i][1]
              signal == SignalsFor(signals', sym)[1]
              base == IF intrabar_policy = "ExactTrades" THEN Unwrap(bar').close
                      ELSE Unwrap(bar').open
              r == SlippageRate(slippage_mode)
          IN  /\ OpenedNow(sym) # {}
              /\ \A o \in OpenedNow(sym) :
                   /\ signal.side = "Buy" =>
                        /\ NearestTick(o.entry_price, base * (SlipScale + r), rules.tick_size)
                        /\ base % rules.tick_size = 0 => o.entry_price >= base
                   /\ signal.side = "Sell" =>
                        /\ NearestTick(o.entry_price, base * (SlipScale - r), rules.tick_size)
                        /\ base % rules.tick_size = 0 => o.entry_price <= base
                   /\ (slippage_mode = "None" /\ base % rules.tick_size = 0) =>
                        o.entry_price = base
      ]_vars

\* C31 witness: under TradeSweep the last bar opened a short below its base
\* price.
C31_Witness ==
    /\ IsSome(bar)
    /\ slippage_mode = "TradeSweep"
    /\ \E k \in DOMAIN active_positions :
         /\ active_positions[k].trade_type = "Short"
         /\ active_positions[k].entry_time = Unwrap(bar).timestamp
         /\ active_positions[k].entry_price < Unwrap(bar).open
         /\ active_positions[k].entry_price < Unwrap(bar).close

JobBars(j, symbol) == load_market_data(symbol, j.sources[symbol]).market_data.bars

TookSimdPath ==
    /\ calc_call' # calc_call \/ cache' # cache
    /\ IsSome(calc_call')
    /\ Unwrap(calc_call').indicator_name = "sma"
    /\ CacheKey("sma", Unwrap(calc_call').market_data) \notin DOMAIN cache
    /\ Len(Unwrap(calc_call').market_data.bars) >= long_period
    /\ enable_simd
    /\ long_period >= 8

\* C34: calculate_sma_simd runs only in a process in which
\* validate_fp_determinism has returned Ok before.
C34_SimdOnlyAfterFpCheck ==
    [][ TookSimdPath => fp_validated ]_vars

\* The smoothed average of the changes (in 1/IndScale) behind each RSI
\* value, from change j on.
RECURSIVE SmoothedFrom(_, _, _, _)
SmoothedFrom(changes, period, j, average) ==
    IF j > Len(changes) THEN <<>>
    ELSE LET next == DecimalDivTo(average * (period - 1) + changes[j] * IndScale, period, 0)
         IN  <<next>> \o SmoothedFrom(changes, period, j + 1, next)

SmoothedLosses(bars, period) ==
    IF Len(bars) < period + 1 THEN <<>>
    ELSE SmoothedFrom(Losses(bars), period, period + 1,
                      DecimalDivTo(SumSeq(SubSeq(Losses(bars), 1, period)), period, IndDigits))

\* C35: every RSI value computed from a smoothed average loss of 0 is
\* exactly 100.
C35_RsiHundredWithoutLosses ==
    (IsSome(calc_call) /\ Unwrap(calc_call).indicator_name = "rsi") =>
        LET avg_losses == SmoothedLosses(Unwrap(calc_call).market_data.bars, short_period)
            values == Unwrap(calc_returned).values
        IN  \A k \in DOMAIN values :
                avg_losses[k] = 0 => values[k].value = 100 * IndScale

\* C36: division by zero in money math never crashes: a process_bar call on
\* a bar closing at 0 with a signal for a symbol without position does not
\* panic, opens no position and records no rejection.
C36_ZeroCloseIsAnErrorValue ==
    [][ (/\ IsSome(bar')
         /\ Unwrap(bar').close = 0
         /\ DividesByClose(active_positions, signals'))
        => (/\ panic' = None
            /\ NewEntries = <<>>
            /\ NewRejected = <<>>) ]_vars

\* The step between neighbouring values of a precision, in 1/PreciseScale.
PreciseStep(precision) == PreciseScale \div Pow10(precision)

\* C37: PreciseDecimal::new rounds to its precision by the named mode:
\* the nearest modes stay within half a step and send an exact midpoint to
\* the even neighbour (NearestEven) or away from zero (NearestAway),
\* TowardZero truncates, TowardPositive rounds up, TowardNegative down.
C37_RoundsByNamedMode ==
    (IsSome(precise_call) /\ Unwrap(precise_call).op = "new") =>
        LET c == Unwrap(precise_call)
            v == c.value
            r == Unwrap(precise).value
            u == PreciseStep(c.precision)
        IN  /\ r % u = 0
            /\ c.rounding_mode = "NearestEven" =>
                 /\ 2 * Abs(r - v) <= u
                 /\ (2 * Abs(r - v) = u) => ((r \div u) % 2 = 0)
            /\ c.rounding_mode = "NearestAway" =>
                 /\ 2 * Abs(r - v) <= u
                 /\ (2 * Abs(r - v) = u) => (Abs(r) > Abs(v))
            /\ c.rounding_mode = "TowardZero" =>
                 /\ Abs(r) <= Abs(v)
                 /\ Abs(v) - Abs(r) < u
                 /\ r * v >= 0
            /\ c.rounding_mode = "TowardPositive" => (r >= v /\ r - v < u)
            /\ c.rounding_mode = "TowardNegative" => (r <= v /\ v - r < u)

\* The f64 is the number zero.
IsZero(x) == x.kind = "finite" /\ x.v = 0

\* C38: a zero in an optional field of a WasmSignal arrives as Some(0) in
\* the StrategySignal converted from it; zero never stands for absence.
C38_ZeroIsNotAbsent ==
    IsSome(wasm_signal) =>
        LET w == Unwrap(wasm_signal)
            g == Unwrap(strategy_signal)
        IN  /\ IsZero(w.entry_price) => g.entry_price = Some(0)
            /\ IsZero(w.take_profit) => g.take_profit = Some(0)
            /\ IsZero(w.stop_loss) => g.stop_loss = Some(0)
            /\ (w.time_to_live = 0) => g.time_to_live = Some(0)

\* The positions the step has opened, as the first signal of their symbol
\* describes them.
AdmittedNow ==
    { [symbol |-> NewEntries[i][1],
       trade_type |-> IF SignalsFor(signals', NewEntries[i][1])[1].side = "Buy"
                      THEN "Long" ELSE "Short",
       entry_time |-> NewEntries[i][2],
       take_profit |-> SignalsFor(signals', NewEntries[i][1])[1].take_profit,
       stop_loss |-> SignalsFor(signals', NewEntries[i][1])[1].stop_loss,
       time_to_live |-> SignalsFor(signals', NewEntries[i][1])[1].time_to_live]
     : i \in DOMAIN NewEntries }

\* The step has appended a record of the symbol that was entered at time t.
RecordedFrom(sym, t) ==
    \E j \in DOMAIN NewRecords :
        /\ NewRecords[j].symbol = sym
        /\ NewRecords[j].entry_time_utc = timestamp_to_iso_utc(t)

\* C39: a position is exit-evaluated on the bar that opened it: when that
\* bar touches its take profit or stop loss, or its time to live is 0, the
\* same process_bar call closes it (the symbol is flat, the record's exit
\* time equals its entry time); otherwise it is open when the call returns.
C39_ExitEvaluatedOnOpeningBar ==
    [][ \A p \in AdmittedNow :
          LET now == Unwrap(bar')
          IN  IF \/ TouchesTp(now, p)
                 \/ TouchesSl(now, p)
                 \/ p.time_to_live = Some(0)
              THEN /\ ~OpenAfter(p.symbol)
                   /\ \E j \in DOMAIN NewRecords :
                        /\ NewRecords[j].symbol = p.symbol
                        /\ NewRecords[j].entry_time_utc = timestamp_to_iso_utc(now.timestamp)
                        /\ NewRecords[j].exit_time_utc = NewRecords[j].entry_time_utc
              ELSE /\ ~RecordedFrom(p.symbol, now.timestamp)
                   /\ \E k \in DOMAIN active_positions' :
                        /\ active_positions'[k].symbol = p.symbol
                        /\ active_positions'[k].entry_time = now.timestamp ]_vars

\* A position with a time to live of 0 was opened and closed by Timeout on
\* one bar while a position opened by an earlier bar is still open.
C39_Witness ==
    /\ IsSome(bar)
    /\ \E i \in DOMAIN trade_records :
         /\ trade_records[i].exit_reason = "Timeout"
         /\ trade_records[i].entry_time_utc = timestamp_to_iso_utc(Unwrap(bar).timestamp)
         /\ trade_records[i].exit_time_utc = trade_records[i].entry_time_utc
    /\ \E k \in DOMAIN active_positions :
         active_positions[k].entry_time < Unwrap(bar).timestamp

\* C40: the timeout test uses the mathematical sum entry_time + ttl over the
\* whole u64 range: process_bar never aborts on it, and a position whose
\* bar lies before entry_time + ttl is not closed by Timeout.
C40_TimeoutSumNeverWraps ==
    [][ /\ panic' = None
        /\ \A p \in EvaluatedPositions :
             (IsSome(p.time_to_live) /\ ~TtlExpired(Unwrap(bar'), p)) =>
                ~\E j \in DOMAIN NewRecords :
                    /\ NewRecords[j].symbol = p.symbol
                    /\ NewRecords[j].entry_time_utc = timestamp_to_iso_utc(p.entry_time)
                    /\ NewRecords[j].exit_reason = "Timeout" ]_vars

====
